---- MODULE Spec2Model ----
(***************************************************************************)
(* Model of the flow-engine orchestration core:                            *)
(*   MemoryManager  (ResourceTracker)   src/src/core/AsyncWorkflowEngine.ts *)
(*   FlowCache      (ResultCache)       src/unnamed/part_005                *)
(*   TaskExecutor / FlowEngine (StepDispatcher / GraphExecutor)             *)
(*                                      src/unnamed/part_006                *)
(*   AsyncWorkflowEngine (AsyncOrchestrator)                                *)
(*                                      src/src/core/AsyncWorkflowEngine.ts *)
(* JavaScript runs one task at a time: every action below is one           *)
(* synchronous segment of code between two awaits (or one whole method     *)
(* when the method holds no await).                                        *)
(***************************************************************************)
EXTENDS Integers, Sequences, FiniteSets, TLC

\* ------------------------------------------------------------------ bounds
\* capacity handed to the MemoryManager constructor (scaled down)
MaxMemory == 8
\* largest usage passed to updateUsage by the environment
MaxUsage == 5

\* capacity (maxSize) and time to live handed to the FlowCache constructor
\* (scaled down), and the last instant of the clock
MaxSize == 2
TTL == 1
MaxTime == 2
\* executeFlow calls issued in one run (execution ids 1..MaxExec)
MaxExec == 2
\* executeWorkflow calls issued in one run
MaxWfExec == 2
\* executeWorkflowsParallel / Sequence / Conditional calls made in a behaviour
MaxGroups == 1
\* nodes one traversal may record in its path (the loop itself has no limit)
MaxSteps == 4

\* ------------------------------------------------------- program constants
\* memoryThreshold = 0.8 and the 0.7 of cleanupMemory, in tenths
WarnTenths == 8
CleanTenths == 7

\* contributor ids of the MemoryManager = node ids of the flow definitions
NodeIds == {"A", "B", "C"}

\* flow ids and the inputs callers pass to executeFlow: JSON objects, written as
\* the sequence of their <<name, value>> members in insertion order
FlowIds == {"f1"}
Inputs == { <<>>, << <<"a", 1>> >> }

VARIABLES
  memoryUsage,   \* MemoryManager.memoryUsage: Map in insertion order, <<[id, usage]>>
  currentUsage,  \* MemoryManager.currentUsage
  memCalls,      \* the last updateUsage call, and the arguments of the one before
  cache,         \* FlowCache.cache: key -> [data, timestamp, accessCount]
  accessOrder,   \* FlowCache.accessOrder
  now,           \* Date.now()
  cacheLog,      \* the last FlowCache call and what it returned
  touchOrder,    \* the stored keys by the instant of their last set / successful get
  flowDefinitions, \* FlowEngine.flowDefinitions: flow id -> definition
  activeFlows,   \* FlowEngine.activeFlows: execution id -> FlowInstance
  metrics,       \* FlowEngine.metrics
  calls,         \* the executeFlow calls: locals and position of each
  workflows,     \* AsyncWorkflowEngine.workflows: the registered workflow ids
  executions,    \* AsyncWorkflowEngine.executions: id -> WorkflowExecutionContext
  wfMetrics,     \* AsyncWorkflowEngine.metrics
  wfCalls,       \* the executeWorkflow calls: locals and position of each
  groups         \* the executeWorkflowsParallel / Sequence / Conditional calls

memVars == <<memoryUsage, currentUsage, memCalls>>
cacheVars == <<cache, accessOrder, now, cacheLog, touchOrder>>
engineVars == <<flowDefinitions, activeFlows, metrics, calls>>
asyncVars == <<workflows, executions, wfMetrics, wfCalls, groups>>
vars == <<memVars, cacheVars, engineVars, asyncVars>>

\* =========================================================================
\* MemoryManager
\* =========================================================================
RECURSIVE SumUsage(_)
SumUsage(mu) == IF mu = <<>> THEN 0 ELSE Head(mu).usage + SumUsage(Tail(mu))

MapIds(mu) == {mu[i].id : i \in 1..Len(mu)}

\* this.memoryUsage.get(nodeId) || 0
MapGetOr0(mu, id) ==
  IF id \in MapIds(mu)
  THEN (CHOOSE i \in 1..Len(mu) : mu[i].id = id) \* unique: Map keys are unique
  ELSE 0

PreviousUsage(mu, id) ==
  IF id \in MapIds(mu) THEN mu[MapGetOr0(mu, id)].usage ELSE 0

\* Map.set: an existing key keeps its position, a new key goes last
MapSet(mu, id, u) ==
  IF id \in MapIds(mu)
  THEN [i \in 1..Len(mu) |-> IF mu[i].id = id THEN [id |-> id, usage |-> u] ELSE mu[i]]
  ELSE Append(mu, [id |-> id, usage |-> u])

\* Map.delete
MapDelete(mu, id) == SelectSeq(mu, LAMBDA e : e.id # id)

\* Array.prototype.sort(([, a], [, b]) => a - b): stable, ascending by usage
RECURSIVE InsertAsc(_, _)
InsertAsc(sorted, e) ==
  IF sorted = <<>> THEN <<e>>
  ELSE IF Head(sorted).usage <= e.usage
       THEN <<Head(sorted)>> \o InsertAsc(Tail(sorted), e)
       ELSE <<e>> \o sorted

RECURSIVE InsertDesc(_, _)
InsertDesc(sorted, e) ==
  IF sorted = <<>> THEN <<e>>
  ELSE IF Head(sorted).usage >= e.usage
       THEN <<Head(sorted)>> \o InsertDesc(Tail(sorted), e)
       ELSE <<e>> \o sorted

RECURSIVE SortedNodesDesc(_)
SortedNodesDesc(mu) ==
  IF mu = <<>> THEN <<>>
  ELSE InsertDesc(SortedNodesDesc(SubSeq(mu, 1, Len(mu) - 1)), mu[Len(mu)])

RECURSIVE SortedNodesAsc(_)
SortedNodesAsc(mu) ==
  IF mu = <<>> THEN <<>>
  ELSE InsertAsc(SortedNodesAsc(SubSeq(mu, 1, Len(mu) - 1)), mu[Len(mu)])

SortedNodes(mu) == SortedNodesAsc(mu)

\* if (this.currentUsage - freedMemory <= this.maxMemory * 0.7) break
CleanupStops(remaining) == 10 * remaining <= CleanTenths * MaxMemory

\* the for loop of cleanupMemory: the entries it deletes, in order
RECURSIVE EvictLoop(_, _)
EvictLoop(sorted, remaining) ==
  IF sorted = <<>> \/ CleanupStops(remaining) THEN <<>>
  ELSE <<Head(sorted)>> \o EvictLoop(Tail(sorted), remaining - Head(sorted).usage)

RECURSIVE DeleteAll(_, _)
DeleteAll(mu, gone) ==
  IF gone = <<>> THEN mu ELSE DeleteAll(MapDelete(mu, Head(gone).id), Tail(gone))

\* cleanupMemory(): the new map, the new total, what was removed
CleanupMemory(mu, cur) ==
  LET gone  == EvictLoop(SortedNodes(mu), cur)
      freed == SumUsage(gone)
  IN [memoryUsage  |-> DeleteAll(mu, gone),
      currentUsage |-> cur - freed,
      evicted      |-> gone,
      events       |-> <<"memory:cleaned">>]

\* if (this.currentUsage > this.maxMemory * this.memoryThreshold)
AboveWarn(cur) == 10 * cur > WarnTenths * MaxMemory

AboveMaxOrEqual(cur) == cur >= MaxMemory

\* if (this.currentUsage > this.maxMemory)
AboveMax(cur) == cur > MaxMemory

\* currentUsage = currentUsage - previousUsage + usage, accumulating variant
AccumulatedTotal(cur, prev, usage) == cur + usage

\* this.currentUsage = this.currentUsage - previousUsage + usage
ReplacedTotal(cur, prev, usage) == cur - prev + usage

\* updateUsage(nodeId, usage), a variant that refuses a usage that would take
\* the total above maxMemory
UpdateUsageBlocking(mu, cur, id, usage) ==
  LET prev == PreviousUsage(mu, id)
      peak == ReplacedTotal(cur, prev, usage)
  IN IF AboveMax(peak)
     THEN [memoryUsage |-> mu, currentUsage |-> cur,
           call |-> [id |-> id, usage |-> usage, prev |-> prev, before |-> cur,
                     peak |-> cur, evicted |-> <<>>, events |-> <<>>]]
     ELSE [memoryUsage |-> MapSet(mu, id, usage), currentUsage |-> peak,
           call |-> [id |-> id, usage |-> usage, prev |-> prev, before |-> cur,
                     peak |-> peak, evicted |-> <<>>,
                     events |-> IF AboveWarn(peak) THEN <<"memory:warning">> ELSE <<>>]]

\* updateUsage(nodeId, usage): the whole method, cleanupMemory included
UpdateUsage(mu, cur, id, usage) ==
  LET prev == PreviousUsage(mu, id)
      peak == ReplacedTotal(cur, prev, usage)
      mu1  == MapSet(mu, id, usage)
      warn == IF AboveWarn(peak)
              THEN <<"memory:warning">> ELSE <<>>
      crit == IF AboveMax(peak)
              THEN <<"memory:critical">> ELSE <<>>
      cl   == IF AboveMax(peak) THEN CleanupMemory(mu1, peak)
              ELSE [memoryUsage |-> mu1, currentUsage |-> peak,
                    evicted |-> <<>>, events |-> <<>>]
  IN [memoryUsage  |-> cl.memoryUsage,
      currentUsage |-> cl.currentUsage,
      call |-> [id |-> id, usage |-> usage, prev |-> prev, before |-> cur,
                peak |-> peak,
                evicted |-> cl.evicted, events |-> warn \o crit \o cl.events]]

\* getCurrentUsage()
GetCurrentUsage == currentUsage

\* getAvailableMemory()
GetAvailableMemory == MaxMemory - currentUsage

\* what an observer keeps of the call before the last one: its arguments and
\* whether its own cleanup pass removed the contributor it was about
Brief(c) == [id |-> c.id, usage |-> c.usage,
             self |-> \E i \in 1..Len(c.evicted) : c.evicted[i].id = c.id]

\* the two most recent calls: <<brief of the one before, the last in full>>
Remember(log, c) ==
  IF log = <<>> THEN <<c>> ELSE <<Brief(log[Len(log)]), c>>

MemInit ==
  /\ memoryUsage = <<>>
  /\ currentUsage = 0
  /\ memCalls = <<>>

\* a caller invokes updateUsage(nodeId, usage)
MemUpdate(id, usage) ==
  LET r == UpdateUsage(memoryUsage, currentUsage, id, usage)
  IN /\ memoryUsage' = r.memoryUsage
     /\ currentUsage' = r.currentUsage
     /\ memCalls' = Remember(memCalls, r.call)
     /\ UNCHANGED <<cacheVars, engineVars, asyncVars>>

\* reset()
MemReset ==
  /\ memoryUsage # <<>>
  /\ memoryUsage' = <<>>
  /\ currentUsage' = 0
  /\ memCalls' = <<>>
  /\ UNCHANGED <<cacheVars, engineVars, asyncVars>>

\* =========================================================================
\* FlowCache
\* =========================================================================
\* JSON.stringify(input): the members in insertion order, as a token list
RECURSIVE Stringify(_)
Stringify(obj) ==
  IF obj = <<>> THEN <<>>
  ELSE <<Head(obj)[1], Head(obj)[2]>> \o Stringify(Tail(obj))

\* generateCacheKey: `${flowId}:${base64(JSON.stringify(input))}`
GenerateCacheKey(flowId, input) == <<flowId, Stringify(input)>>

\* the keys of the engine, and two keys of other users of the cache
CacheKeys ==
  {GenerateCacheKey(f, i) : f \in FlowIds, i \in Inputs}
    \cup {GenerateCacheKey(f, <<>>) : f \in {"g1", "g2"}}

\* what get returns on a miss
Null == [null |-> TRUE]

\* values stored by direct users of the cache
SampleData == {[id |-> "r1"], [id |-> "r2"]}

EmptyMap == [k \in {} |-> Null]

MapWithout(m, k) == [x \in DOMAIN m \ {k} |-> m[x]]

MapWith(m, k, e) == [x \in DOMAIN m \cup {k} |-> IF x = k THEN e ELSE m[x]]

\* Date.now() - entry.timestamp > this.ttl
Expired(entry, t) == t - entry.timestamp > TTL

\* removeFromAccessOrder, a variant that forgets to remove
KeepInAccessOrder(order, key) == order

\* removeFromAccessOrder: indexOf + splice(index, 1) removes the first occurrence
RemoveFromAccessOrder(order, key) ==
  IF \E i \in 1..Len(order) : order[i] = key
  THEN LET i == CHOOSE n \in 1..Len(order) :
                  order[n] = key /\ \A m \in 1..(n - 1) : order[m] # key
       IN SubSeq(order, 1, i - 1) \o SubSeq(order, i + 1, Len(order))
  ELSE order

\* updateAccessOrder, a variant that leaves a key already listed where it is
UpdateAccessOrderFifo(order, key) ==
  IF \E i \in 1..Len(order) : order[i] = key THEN order ELSE Append(order, key)

\* updateAccessOrder
UpdateAccessOrder(order, key) == Append(RemoveFromAccessOrder(order, key), key)

\* evictLRU
EvictLRU(c, order) ==
  IF Len(order) = 0 THEN [cache |-> c, accessOrder |-> order, evicted |-> <<>>]
  ELSE [cache |-> MapWithout(c, order[1]), accessOrder |-> Tail(order),
        evicted |-> <<order[1]>>]

\* get(key), a variant whose hit restarts the entry's time to live
FlowCacheGetSliding(c, order, key, t) ==
  IF key \notin DOMAIN c
  THEN [cache |-> c, accessOrder |-> order, ret |-> Null]
  ELSE IF Expired(c[key], t)
  THEN [cache |-> MapWithout(c, key),
        accessOrder |-> RemoveFromAccessOrder(order, key), ret |-> Null]
  ELSE [cache |-> [c EXCEPT ![key].timestamp = t],
        accessOrder |-> UpdateAccessOrder(order, key), ret |-> c[key].data]

\* get(key)
FlowCacheGet(c, order, key, t) ==
  IF key \notin DOMAIN c
  THEN [cache |-> c, accessOrder |-> order, ret |-> Null]
  ELSE IF Expired(c[key], t)
  THEN [cache |-> MapWithout(c, key),
        accessOrder |-> RemoveFromAccessOrder(order, key), ret |-> Null]
  ELSE [cache |-> c, accessOrder |-> UpdateAccessOrder(order, key),
        ret |-> c[key].data]

\* if (this.cache.size >= this.maxSize)
MustEvict(c) == Cardinality(DOMAIN c) >= MaxSize

\* set(key, data), a variant that keeps the entry a key already has
FlowCacheSetKeepFirst(c, order, key, data, t) ==
  IF key \in DOMAIN c
  THEN [cache |-> c, accessOrder |-> order, evicted |-> <<>>]
  ELSE LET ev == IF MustEvict(c) THEN EvictLRU(c, order)
                 ELSE [cache |-> c, accessOrder |-> order, evicted |-> <<>>]
           entry == [data |-> data, timestamp |-> t, accessCount |-> 0]
       IN [cache |-> MapWith(ev.cache, key, entry),
           accessOrder |-> UpdateAccessOrder(ev.accessOrder, key),
           evicted |-> ev.evicted]

\* set(key, data)
FlowCacheSet(c, order, key, data, t) ==
  LET ev == IF MustEvict(c) THEN EvictLRU(c, order)
            ELSE [cache |-> c, accessOrder |-> order, evicted |-> <<>>]
      entry == [data |-> data, timestamp |-> t, accessCount |-> 0]
  IN [cache |-> MapWith(ev.cache, key, entry),
      accessOrder |-> UpdateAccessOrder(ev.accessOrder, key),
      evicted |-> ev.evicted]

\* delete(key)
FlowCacheDelete(c, order, key) ==
  [cache |-> MapWithout(c, key), accessOrder |-> RemoveFromAccessOrder(order, key),
   ret |-> key \in DOMAIN c]

RECURSIVE SumAccessCount(_, _)
SumAccessCount(c, keys) ==
  IF keys = {} THEN 0
  ELSE LET k == CHOOSE x \in keys : TRUE
       IN c[k].accessCount + SumAccessCount(c, keys \ {k})

\* getStats()
GetStats(c, t) ==
  [size    |-> Cardinality(DOMAIN c),
   maxSize |-> MaxSize,
   hits    |-> SumAccessCount(c, DOMAIN c),
   misses  |-> 0,
   expired |-> Cardinality({k \in DOMAIN c : Expired(c[k], t)})]

\* the recency a reader of the contract expects: the keys stored, the one
\* touched last (by a set or a successful get) going last
Touch(order, key) == Append(SelectSeq(order, LAMBDA k : k # key), key)

Stored(order, c) == SelectSeq(order, LAMBDA k : k \in DOMAIN c)

CacheInit ==
  /\ cache = EmptyMap
  /\ accessOrder = <<>>
  /\ now = 0
  /\ cacheLog = [op |-> "none"]
  /\ touchOrder = <<>>

\* the effect of one get on the cache, by whoever calls it
DoCacheGet(key) ==
  LET r == FlowCacheGet(cache, accessOrder, key, now)
  IN /\ cache' = r.cache
     /\ accessOrder' = r.accessOrder
     /\ cacheLog' = [op |-> "get", key |-> key, ret |-> r.ret,
                      removed |-> DOMAIN cache \ DOMAIN r.cache]
     /\ touchOrder' = Stored(IF r.ret # Null THEN Touch(touchOrder, key)
                                             ELSE touchOrder, r.cache)
     /\ now' = now

\* the effect of one set on the cache, by whoever calls it
DoCacheSet(key, data) ==
  LET r == FlowCacheSet(cache, accessOrder, key, data, now)
  IN /\ cache' = r.cache
     /\ accessOrder' = r.accessOrder
     /\ cacheLog' = [op |-> "set", key |-> key, evicted |-> r.evicted,
                      stamp |-> IF r.evicted # <<>> /\ r.evicted[1] \in DOMAIN cache
                                THEN cache[r.evicted[1]].timestamp ELSE 0]
     /\ touchOrder' = Stored(Touch(touchOrder, key), r.cache)
     /\ now' = now

\* a direct user of the cache calls get(key)
CacheGet(key) == DoCacheGet(key) /\ UNCHANGED <<memVars, engineVars, asyncVars>>

\* a direct user of the cache calls set(key, data)
CacheSet(key, data) ==
  DoCacheSet(key, data) /\ UNCHANGED <<memVars, engineVars, asyncVars>>

CacheDelete(key) ==
  LET r == FlowCacheDelete(cache, accessOrder, key)
  IN /\ cache' = r.cache
     /\ accessOrder' = r.accessOrder
     /\ cacheLog' = [op |-> "delete", key |-> key, ret |-> r.ret]
     /\ touchOrder' = Stored(touchOrder, r.cache)
     /\ now' = now
     /\ UNCHANGED <<memVars, engineVars, asyncVars>>

\* clear()
CacheClear ==
  /\ cache' = EmptyMap
  /\ accessOrder' = <<>>
  /\ cacheLog' = [op |-> "clear"]
  /\ touchOrder' = <<>>
  /\ now' = now
  /\ UNCHANGED <<memVars, engineVars, asyncVars>>

\* time passes
Tick ==
  /\ now < MaxTime
  /\ now' = now + 1
  /\ UNCHANGED <<cache, accessOrder, cacheLog, touchOrder>>
  /\ UNCHANGED <<memVars, engineVars, asyncVars>>

\* =========================================================================
\* TaskExecutor
\* =========================================================================
\* node types with a handler in nodeHandlers (registerDefaultHandlers)
HandlerTypes == {"transform", "api_call", "validation"}

\* what response.json() may deliver to the api_call handler
ApiResponses == {[r |-> 1]}

\* JSON.stringify(result).length for an object of one-character names and
\* one-digit values: {} is 2 long, {"a":1,"b":2} is 6n + 1 long; for the
\* output of a validation, {"isValid":true,"errors":[]} is 28 long, false is
\* one longer, and each two-character message adds 4 and a comma between two
JsonLen(obj) ==
  IF "isValid" \in DOMAIN obj
  THEN LET k == Len(obj["errors"])
       IN 28 + (IF obj["isValid"] THEN 0 ELSE 1) + 4 * k + (IF k > 1 THEN k - 1 ELSE 0)
  ELSE LET n == Cardinality(DOMAIN obj) IN IF n = 0 THEN 2 ELSE 6 * n + 1

\* estimateMemoryUsage: resultSize * 2
EstimateMemoryUsage(result) == JsonLen(result) * 2

\* the transform handler on a mapping of literal values
TransformHandler(config) == config.mapping

\* validateRule(rule, variables) for the operators required and equals on
\* fields that hold numbers; any other operator passes
ValidateRule(rule, variables) ==
  CASE rule.operator = "required" -> rule.field \in DOMAIN variables
    [] rule.operator = "equals" ->
         rule.field \in DOMAIN variables /\ variables[rule.field] = rule.value
    [] OTHER -> TRUE

\* the output of a validation: { isValid: errors.length === 0, errors }
ValidationOutput(errors) ==
  [k \in {"isValid", "errors"} |-> IF k = "isValid" THEN errors = <<>> ELSE errors]

\* the validation handler, a variant that stops at the first rule that fails
ValidationHandlerFirstError(config, variables) ==
  LET failed == SelectSeq(config.rules, LAMBDA r : ~ ValidateRule(r, variables))
  IN ValidationOutput(IF failed = <<>> THEN <<>> ELSE <<failed[1].message>>)

\* the validation handler: the messages of the rules that fail, in rule order
ValidationHandler(config, variables) ==
  LET failed == SelectSeq(config.rules, LAMBDA r : ~ ValidateRule(r, variables))
  IN ValidationOutput([i \in 1..Len(failed) |-> failed[i].message])

\* the outcomes of handler(context): the values it may return
HandlerReturns(node, variables) ==
  CASE node.type = "transform"  -> {TransformHandler(node.config)}
    [] node.type = "validation" -> {ValidationHandler(node.config, variables)}
    [] OTHER                    -> ApiResponses

\* fetch() may reject: the api_call handler may throw
HandlerMayThrow(node) == node.type = "api_call"

\* =========================================================================
\* FlowEngine
\* =========================================================================
NoCond == [kind |-> "none"]
NoNode == [id |-> "", type |-> "", config |-> [mapping |-> <<>>]]
NoEdge == [source |-> "", target |-> "", condition |-> NoCond]
NoDef  == [id |-> "", startNode |-> "", nodes |-> <<>>, edges |-> <<>>]

TNode(id, mapping) == [id |-> id, type |-> "transform", config |-> [mapping |-> mapping]]
ANode(id) == [id |-> id, type |-> "api_call", config |-> [mapping |-> <<>>]]
Edge(s, t, c) == [source |-> s, target |-> t, condition |-> c]

\* the definitions callers register, all under the id f1
DefLinear ==
  [id |-> "f1", startNode |-> "A",
   nodes |-> <<TNode("A", [b |-> 1]), TNode("B", [b |-> 2]), TNode("C", [c |-> 3])>>,
   edges |-> <<Edge("A", "B", NoCond), Edge("B", "C", NoCond)>>]

\* edge condition `variables.a === 1` on the way to an api_call node
DefCond ==
  [id |-> "f1", startNode |-> "A",
   nodes |-> <<TNode("A", [b |-> 1]), ANode("B")>>,
   edges |-> <<Edge("A", "B", [kind |-> "eq", name |-> "a", value |-> 1])>>]

Defs == {DefLinear, DefCond}

\* two edges leave A: an unconditional one to B, declared first, and one to C
\* under `variables.a === 1`
DefFork ==
  [id |-> "f1", startNode |-> "A",
   nodes |-> <<TNode("A", [b |-> 1]), TNode("B", [b |-> 2]), TNode("C", [c |-> 3])>>,
   edges |-> <<Edge("A", "B", NoCond),
               Edge("A", "C", [kind |-> "eq", name |-> "a", value |-> 1])>>]

\* the edge condition `$a === 1`, written like the conditions of
\* UserRegistrationFlow
DefFree ==
  [id |-> "f1", startNode |-> "A",
   nodes |-> <<TNode("A", [b |-> 1]), TNode("B", [b |-> 2])>>,
   edges |-> <<Edge("A", "B", [kind |-> "free", name |-> "a", value |-> 1])>>]

GraphDefs == {DefFork, DefFree}

\* the edges lead from A to B and back
DefCycle ==
  [id |-> "f1", startNode |-> "A",
   nodes |-> <<TNode("A", [b |-> 1]), TNode("B", [b |-> 2])>>,
   edges |-> <<Edge("A", "B", NoCond), Edge("B", "A", NoCond)>>]

CycleDefs == {DefLinear, DefCycle}

\* definitions that name a node id absent from their nodes: the target of the
\* last edge, and the startNode
DefDangling ==
  [id |-> "f1", startNode |-> "A",
   nodes |-> <<TNode("A", [b |-> 1]), TNode("B", [b |-> 2])>>,
   edges |-> <<Edge("A", "B", NoCond), Edge("B", "Z", NoCond)>>]

DefNoStart ==
  [id |-> "f1", startNode |-> "Z", nodes |-> <<TNode("A", [b |-> 1])>>, edges |-> <<>>]

LazyDefs == {DefCond, DefDangling, DefNoStart}

\* a definition whose second node has a type without a handler
DefUnknownType ==
  [id |-> "f1", startNode |-> "A",
   nodes |-> <<TNode("A", [b |-> 1]),
               [id |-> "B", type |-> "custom", config |-> [mapping |-> <<>>]]>>,
   edges |-> <<Edge("A", "B", NoCond)>>]

TypeDefs == {DefCond, DefUnknownType}

Rule(field, operator, value, message) ==
  [field |-> field, operator |-> operator, value |-> value, message |-> message]

\* a validation node (a is required, a must equal 1) followed by a transform,
\* without and with a condition `variables.a === 1` on the edge between them
VNode(id) ==
  [id |-> id, type |-> "validation",
   config |-> [mapping |-> <<>>,
               rules |-> <<Rule("a", "required", 0, "m1"), Rule("a", "equals", 1, "m2")>>]]

DefValidation ==
  [id |-> "f1", startNode |-> "A",
   nodes |-> <<VNode("A"), TNode("B", [b |-> 2])>>,
   edges |-> <<Edge("A", "B", NoCond)>>]

DefValidationCond ==
  [id |-> "f1", startNode |-> "A",
   nodes |-> <<VNode("A"), TNode("B", [b |-> 2])>>,
   edges |-> <<Edge("A", "B", [kind |-> "eq", name |-> "a", value |-> 1])>>]

ValidationDefs == {DefValidation, DefValidationCond}

ExecIds == 1..MaxExec

\* { ...input }
ObjOf(input) ==
  LET names == {input[i][1] : i \in 1..Len(input)}
  IN [n \in names |->
        input[CHOOSE i \in 1..Len(input) :
                input[i][1] = n /\ \A j \in (i + 1)..Len(input) : input[j][1] # n][2]]

\* { ...a, ...b }, a variant that keeps only the members of b
SpreadSecond(a, b) == b

\* { ...a, ...b }
Spread(a, b) ==
  [n \in DOMAIN a \cup DOMAIN b |-> IF n \in DOMAIN b THEN b[n] ELSE a[n]]

\* new Map(definition.nodes.map(node => [node.id, node])).get(id): last one wins
NodeFor(def, id) ==
  IF \E i \in 1..Len(def.nodes) : def.nodes[i].id = id
  THEN def.nodes[CHOOSE i \in 1..Len(def.nodes) :
         def.nodes[i].id = id /\ \A j \in (i + 1)..Len(def.nodes) : def.nodes[j].id # id]
  ELSE NoNode

\* the edge map, a variant in which the first edge declared for a source wins
EdgeForFirst(def, id) ==
  IF \E i \in 1..Len(def.edges) : def.edges[i].source = id
  THEN def.edges[CHOOSE i \in 1..Len(def.edges) :
         def.edges[i].source = id /\ \A j \in 1..(i - 1) : def.edges[j].source # id]
  ELSE NoEdge

\* new Map(definition.edges.map(edge => [edge.source, edge])).get(id): last one wins
EdgeFor(def, id) ==
  IF \E i \in 1..Len(def.edges) : def.edges[i].source = id
  THEN def.edges[CHOOSE i \in 1..Len(def.edges) :
         def.edges[i].source = id /\ \A j \in (i + 1)..Len(def.edges) : def.edges[j].source # id]
  ELSE NoEdge

\* evaluateCondition, a variant that takes every condition to hold
EvaluateConditionTrue(cond, variables) == TRUE

\* new Function('variables', `return ${condition}`)(variables): what the call
\* returns, or that it throws. `variables.<name> === <value>` (kind eq) compares
\* a member, undefined when absent; `$<name> === <value>` (kind free) names an
\* identifier that is declared nowhere, a ReferenceError
EvaluateBody(cond, variables) ==
  IF cond.kind = "free"
  THEN [threw |-> TRUE, value |-> FALSE]
  ELSE [threw |-> FALSE,
        value |-> cond.name \in DOMAIN variables /\ variables[cond.name] = cond.value]

\* evaluateCondition, a variant whose catch takes the condition to hold
EvaluateConditionLenient(cond, variables) ==
  LET r == EvaluateBody(cond, variables) IN IF r.threw THEN TRUE ELSE r.value

\* evaluateCondition(condition, variables): try { return ... } catch { return false }
EvaluateCondition(cond, variables) ==
  LET r == EvaluateBody(cond, variables) IN IF r.threw THEN FALSE ELSE r.value

\* edge && edge.condition && !this.evaluateCondition(edge.condition, variables)
ConditionNotMet(edge, variables) ==
  /\ edge # NoEdge
  /\ edge.condition # NoCond
  /\ ~ EvaluateCondition(edge.condition, variables)

\* currentNode = edge?.target || null, a variant that stays at the source
NextNodeStay(edge) == IF edge = NoEdge THEN "" ELSE edge.source

\* currentNode = edge?.target || null   ("" stands for null)
NextNode(edge) == IF edge = NoEdge THEN "" ELSE edge.target

\* if (cachedResult), a variant that never takes the cached result
NeverCached(cachedResult) == FALSE

\* if (cachedResult)
IsCached(cachedResult) == cachedResult # Null

NoCall ==
  [pc |-> "none", flowId |-> "", input |-> <<>>, cacheKey |-> <<>>,
   definition |-> NoDef, cached |-> Null, currentNode |-> "",
   executionPath |-> <<>>, dispatched |-> <<>>, reported |-> <<>>,
   nodeResult |-> Null, result |-> Null, error |-> "", errorNode |-> "",
   cause |-> "", after |-> {}, events |-> <<>>]

\* what is left of a call once its promise has settled
Settled(c, pc, result, error) ==
  [NoCall EXCEPT !.pc = pc, !.flowId = c.flowId, !.input = c.input,
                 !.cacheKey = c.cacheKey, !.cached = c.cached,
                 !.definition = c.definition,
                 !.dispatched = c.dispatched, !.reported = c.reported,
                 !.result = result, !.error = error,
                 !.errorNode = c.errorNode, !.cause = c.cause,
                 !.events = c.events]

\* a call that emits nothing
NoEmit(c) == c

\* this.emit('flow:started', instance): the listeners run before emit returns
EmitStarted(c) == [c EXCEPT !.events = Append(@, "flow:started")]

\* this.emit('flow:completed', result)
EmitCompleted(c) == [c EXCEPT !.events = Append(@, "flow:completed")]

\* this.emit('flow:failed', { flowId, executionId, error })
EmitFailed(c) == [c EXCEPT !.events = Append(@, "flow:failed")]

\* the flow:failed listener of setupEventHandlers
OnFlowFailed(m) == [m EXCEPT !.failedExecutions = @ + 1]

\* updateMetrics(result)
UpdateMetrics(m, cur) ==
  [m EXCEPT !.totalExecutions = @ + 1, !.successfulExecutions = @ + 1,
            !.memoryUsage = cur]

\* what the api_call handler throws when fetch rejects
HandlerErrors == {"fetch failed"}

\* the catch block of TaskExecutor.execute:
\* throw new Error(`Node execution failed: ${node.id} - ${error.message}`),
\* kept as the head of the message, the node id and the message of the error
\* caught
ExecuteCatch(c, nodeId, message) ==
  [c EXCEPT !.pc = "failing", !.error = "Node execution failed",
            !.errorNode = nodeId, !.cause = message]

\* the head of the while loop up to `await handler(context)`: the node lookup,
\* the handler lookup and the call of the handler
StartNode(c, nodeId) ==
  LET node == NodeFor(c.definition, nodeId)
  IN IF node = NoNode
     THEN [c EXCEPT !.pc = "failing", !.error = "Node not found",
                    !.currentNode = nodeId]
     ELSE IF node.type \notin HandlerTypes
     THEN ExecuteCatch([c EXCEPT !.currentNode = nodeId], nodeId,
                       "No handler found for node type")
     ELSE [c EXCEPT !.pc = "handler", !.currentNode = nodeId,
                    !.dispatched = Append(@, nodeId)]

\* the FlowResult built at the end of executeFlowInstance
FlowResult(e, c, variables, cur) ==
  [id |-> e, flowId |-> c.flowId, status |-> "completed",
   executionPath |-> c.executionPath, output |-> variables, memoryUsage |-> cur,
   performance |-> [nodesExecuted |-> Len(c.executionPath), memoryPeak |-> cur,
                    cacheHits |-> 0, cacheMisses |-> 1]]

\* the loop, a variant that takes an unknown node id for the end of the flow
LoopUntilUnknown(e, c, nodeId, variables, cur) ==
  IF nodeId # "" /\ NodeFor(c.definition, nodeId) # NoNode
  THEN StartNode(c, nodeId)
  ELSE [c EXCEPT !.pc = "traversed", !.currentNode = "",
                 !.result = FlowResult(e, c, variables, cur)]

\* while (currentNode) { ... }: start the node, or leave the loop and return
LoopOrReturn(e, c, nodeId, variables, cur) ==
  IF nodeId # ""
  THEN StartNode(c, nodeId)
  ELSE [c EXCEPT !.pc = "traversed", !.currentNode = "",
                 !.result = FlowResult(e, c, variables, cur)]

\* this.memoryManager.updateUsage(node.id, result.memoryUsage || 0)
EngineUpdateUsage(id, usage) ==
  LET r == UpdateUsage(memoryUsage, currentUsage, id, usage)
  IN /\ memoryUsage' = r.memoryUsage
     /\ currentUsage' = r.currentUsage
     /\ memCalls' = memCalls

EngineInit ==
  /\ flowDefinitions = [f \in FlowIds |-> NoDef]
  /\ activeFlows = EmptyMap
  /\ metrics = [totalExecutions |-> 0, successfulExecutions |-> 0,
                failedExecutions |-> 0, memoryUsage |-> 0]
  /\ calls = EmptyMap

\* registerFlow(definition)
RegisterFlow(def) ==
  /\ flowDefinitions[def.id] # def
  /\ flowDefinitions' = [flowDefinitions EXCEPT ![def.id] = def]
  /\ UNCHANGED <<activeFlows, metrics, calls, memVars, cacheVars, asyncVars>>

\* executeFlow(flowId, input) up to `await this.flowCache.get(cacheKey)`
ExecuteFlow(flowId, input) ==
  LET e == Cardinality(DOMAIN calls) + 1
      c == [NoCall EXCEPT !.flowId = flowId, !.input = input]
  IN /\ e <= MaxExec
     /\ IF flowDefinitions[flowId] = NoDef
        THEN /\ calls' = MapWith(calls, e, Settled(EmitFailed(c), "rejected", Null, "Flow not found"))
             /\ metrics' = OnFlowFailed(metrics)
             /\ UNCHANGED cacheVars
        ELSE LET key == GenerateCacheKey(flowId, input)
             IN /\ DoCacheGet(key)
                /\ calls' = MapWith(calls, e,
                     [c EXCEPT !.pc = "cacheGet", !.cacheKey = key,
                               !.definition = flowDefinitions[flowId],
                               !.cached = FlowCacheGet(cache, accessOrder, key, now).ret])
                /\ UNCHANGED metrics
     /\ UNCHANGED <<flowDefinitions, activeFlows, memVars, asyncVars>>

\* after the cache lookup: return the cached result ...
ReturnCached(e) ==
  /\ e \in DOMAIN calls
  /\ calls[e].pc = "cacheGet"
  /\ IsCached(calls[e].cached)
  /\ calls' = [calls EXCEPT ![e] = Settled(@, "resolved", calls[e].cached, "")]
  /\ UNCHANGED <<flowDefinitions, activeFlows, metrics, memVars, cacheVars, asyncVars>>

\* ... or create the instance, register it and start the traversal
StartInstance(e) ==
  /\ e \in DOMAIN calls
  /\ calls[e].pc = "cacheGet"
  /\ ~ IsCached(calls[e].cached)
  /\ activeFlows' = MapWith(activeFlows, e,
       [id |-> e, flowId |-> calls[e].flowId, status |-> "running",
        currentNode |-> calls[e].definition.startNode,
        variables |-> ObjOf(calls[e].input)])
  /\ calls' = [calls EXCEPT ![e] =
       LoopOrReturn(e, EmitStarted(@), calls[e].definition.startNode, ObjOf(calls[e].input),
                    currentUsage)]
  /\ UNCHANGED <<flowDefinitions, metrics, memVars, cacheVars, asyncVars>>

\* the handler returns: TaskExecutor.execute resolves with the output and the
\* estimate, and executeNode, resumed, reports the usage (the step in between
\* touches only locals of the call)
HandlerReturn(e) ==
  /\ e \in DOMAIN calls
  /\ calls[e].pc = "handler"
  /\ \E out \in HandlerReturns(NodeFor(calls[e].definition, calls[e].currentNode),
                                activeFlows[e].variables) :
       /\ EngineUpdateUsage(calls[e].currentNode, EstimateMemoryUsage(out))
       /\ calls' = [calls EXCEPT ![e].pc = "reported",
                                 ![e].reported = Append(@, calls[e].currentNode),
                                 ![e].nodeResult = [output |-> out,
                                                    memoryUsage |-> EstimateMemoryUsage(out)]]
  /\ UNCHANGED <<flowDefinitions, activeFlows, metrics, cacheVars, asyncVars>>

\* the handler throws: TaskExecutor.execute rethrows, executeNode and
\* executeFlowInstance let the error through to the catch block of executeFlow
HandlerThrow(e) ==
  /\ e \in DOMAIN calls
  /\ calls[e].pc = "handler"
  /\ HandlerMayThrow(NodeFor(calls[e].definition, calls[e].currentNode))
  /\ \E m \in HandlerErrors :
       calls' = [calls EXCEPT ![e] = ExecuteCatch(@, calls[e].currentNode, m)]
  /\ UNCHANGED <<flowDefinitions, activeFlows, metrics, memVars, cacheVars, asyncVars>>

\* executeFlowInstance after `await this.executeNode`: record the node, merge
\* its output, pick the edge, and go round the loop or return the result
Advance(e) ==
  /\ e \in DOMAIN calls
  /\ calls[e].pc = "reported"
  /\ Len(calls[e].executionPath) < MaxSteps
  /\ LET c    == calls[e]
         vars1 == Spread(activeFlows[e].variables, c.nodeResult.output)
         edge == EdgeFor(c.definition, c.currentNode)
         c1   == [c EXCEPT !.executionPath = Append(@, c.currentNode),
                           !.nodeResult = Null]
         next == IF ConditionNotMet(edge, vars1) THEN "" ELSE NextNode(edge)
     IN /\ activeFlows' = [activeFlows EXCEPT ![e].variables = vars1,
                                              ![e].currentNode = c.currentNode]
        /\ calls' = [calls EXCEPT ![e] = LoopOrReturn(e, c1, next, vars1, currentUsage)]
  /\ UNCHANGED <<flowDefinitions, metrics, memVars, cacheVars, asyncVars>>

\* the calls suspended at `await this.flowCache.set`: set has no await of its
\* own, so their continuations are queued in the order of their sets
AwaitingSet(cs) == {e2 \in DOMAIN cs : cs[e2].pc = "cacheSet"}

\* executeFlow after `await this.executeFlowInstance`: metrics, then the cache
StoreResult(e) ==
  /\ e \in DOMAIN calls
  /\ calls[e].pc = "traversed"
  /\ metrics' = UpdateMetrics(metrics, currentUsage)
  /\ DoCacheSet(calls[e].cacheKey, calls[e].result)
  /\ calls' = [calls EXCEPT ![e].pc = "cacheSet", ![e].after = AwaitingSet(calls)]
  /\ UNCHANGED <<flowDefinitions, activeFlows, memVars, asyncVars>>

\* the active instances left by the cleanup of the success path
AfterCompletion(active, e) == MapWithout(active, e)

\* executeFlow after `await this.flowCache.set`: cleanup and return
Complete(e) ==
  /\ e \in DOMAIN calls
  /\ calls[e].pc = "cacheSet"
  /\ calls[e].after \cap AwaitingSet(calls) = {}
  /\ activeFlows' = AfterCompletion(activeFlows, e)
  /\ calls' = [calls EXCEPT ![e] = Settled(EmitCompleted(@), "resolved", calls[e].result, "")]
  /\ UNCHANGED <<flowDefinitions, metrics, memVars, cacheVars, asyncVars>>

\* the catch block, a variant that returns a failed FlowResult to the caller
ReturnFailedResult(c) ==
  Settled(c, "resolved",
          [id |-> 0, flowId |-> c.flowId, status |-> "failed",
           executionPath |-> c.executionPath, error |-> c.error], "")

\* `throw error` at the end of the catch block: the promise of executeFlow is
\* rejected with the error, no FlowResult is produced
Rethrow(c) == Settled(c, "rejected", Null, c.error)

\* the catch block of executeFlow: log, emit flow:failed, rethrow
Fail(e) ==
  /\ e \in DOMAIN calls
  /\ calls[e].pc = "failing"
  /\ metrics' = OnFlowFailed(metrics)
  /\ calls' = [calls EXCEPT ![e] = Rethrow(EmitFailed(@))]
  /\ UNCHANGED <<flowDefinitions, activeFlows, memVars, cacheVars, asyncVars>>

\* the errors a listener of a component's event throws: emit calls the
\* listeners synchronously, inside get, set and updateUsage
ComponentFaults == {"cache fault", "tracker fault"}

\* `await this.flowCache.get(cacheKey)` rejects: get has updated the access
\* order and a listener of 'cache:hit' throws; the await is inside the try of
\* executeFlow, whose catch block takes over
CacheGetFaults(e) ==
  /\ e \in DOMAIN calls
  /\ calls[e].pc = "cacheGet"
  /\ IsCached(calls[e].cached)
  /\ calls' = [calls EXCEPT ![e].pc = "failing", ![e].error = "cache fault"]
  /\ UNCHANGED <<flowDefinitions, activeFlows, metrics, memVars, cacheVars, asyncVars>>

\* `await this.flowCache.set(cacheKey, result)` rejects: set has stored the
\* entry and a listener of 'cache:set' throws; the cleanup after the await is
\* skipped and the catch block takes over
CacheSetFaults(e) ==
  /\ e \in DOMAIN calls
  /\ calls[e].pc = "cacheSet"
  /\ calls' = [calls EXCEPT ![e].pc = "failing", ![e].error = "cache fault"]
  /\ UNCHANGED <<flowDefinitions, activeFlows, metrics, memVars, cacheVars, asyncVars>>

\* updateUsage(nodeId, usage) up to `this.emit('memory:warning', ...)`
UpdateUsageUntilWarning(mu, cur, id, usage) ==
  LET prev == PreviousUsage(mu, id)
      peak == ReplacedTotal(cur, prev, usage)
  IN [memoryUsage |-> MapSet(mu, id, usage), currentUsage |-> peak,
      warned |-> AboveWarn(peak)]

\* the handler returns and `this.memoryManager.updateUsage` throws: the usage is
\* recorded, a listener of 'memory:warning' throws before the cleanup, and
\* executeNode, which calls updateUsage outside any try, lets the error through
\* executeFlowInstance to the catch block of executeFlow
UpdateUsageFaults(e) ==
  /\ e \in DOMAIN calls
  /\ calls[e].pc = "handler"
  /\ \E out \in HandlerReturns(NodeFor(calls[e].definition, calls[e].currentNode),
                                activeFlows[e].variables) :
       LET r == UpdateUsageUntilWarning(memoryUsage, currentUsage,
                                        calls[e].currentNode, EstimateMemoryUsage(out))
       IN /\ r.warned
          /\ memoryUsage' = r.memoryUsage
          /\ currentUsage' = r.currentUsage
          /\ memCalls' = memCalls
  /\ calls' = [calls EXCEPT ![e].pc = "failing", ![e].error = "tracker fault"]
  /\ UNCHANGED <<flowDefinitions, activeFlows, metrics, cacheVars, asyncVars>>

\* getActiveFlows(): the execution ids of the instances returned
GetActiveFlows == DOMAIN activeFlows

\* =========================================================================
\* AsyncWorkflowEngine
\* =========================================================================
WNode(id, type) == [id |-> id, label |-> id, type |-> type]

\* the workflows callers register
WfTwo ==
  [id |-> "w1",
   nodes |-> <<WNode("A", "start"), WNode("B", "process")>>,
   edges |-> <<[source |-> "A", target |-> "B"]>>]

WfEmpty == [id |-> "w0", nodes |-> <<>>, edges |-> <<>>]

\* A is declared first although the only edge makes it depend on B
WfRev ==
  [id |-> "w2",
   nodes |-> <<WNode("A", "process"), WNode("B", "start")>>,
   edges |-> <<[source |-> "B", target |-> "A"]>>]

\* three nodes in a row
WfThree ==
  [id |-> "w3",
   nodes |-> <<WNode("A", "start"), WNode("B", "process"), WNode("C", "end")>>,
   edges |-> <<[source |-> "A", target |-> "B"], [source |-> "B", target |-> "C"]>>]

Workflows == {WfTwo, WfEmpty, WfRev, WfThree}

WorkflowIds == {w.id : w \in Workflows}

WorkflowOf(id) == CHOOSE w \in Workflows : w.id = id

WfExecIds == 1..MaxWfExec

\* determineStepType(node)
DetermineStepType(node) ==
  CASE node.type \in {"start", "end"} -> "sync"
    [] node.type \in {"process", "database", "api"} -> "async"
    [] node.type = "decision" -> "conditional"
    [] node.type = "loop" -> "loop"
    [] OTHER -> "sync"

\* getNodeDependencies(node, workflow)
GetNodeDependencies(node, wf) ==
  LET es == SelectSeq(wf.edges, LAMBDA e : e.target = node.id)
  IN [i \in 1..Len(es) |-> es[i].source]

\* timeout: 30000 of createWorkflowSteps, in ticks of the clock (one tick
\* stands for 30 seconds)
StepTimeout == 1

\* retryAttempts: 3 of createWorkflowSteps
StepRetryAttempts == 3

\* the options of the constructor that executeStep receives: timeout: 300000
\* in ticks, retryAttempts: 3
DefaultOptions == [timeout |-> 10, retryAttempts |-> 3]

\* createWorkflowSteps(workflow), a variant that takes the nodes last to first
CreateWorkflowStepsReversed(wf) ==
  [i \in 1..Len(wf.nodes) |->
     LET n == wf.nodes[Len(wf.nodes) + 1 - i]
     IN [id |-> n.id, name |-> n.label, type |-> DetermineStepType(n),
         node |-> n, dependencies |-> GetNodeDependencies(n, wf),
         timeout |-> StepTimeout, retryAttempts |-> StepRetryAttempts]]

\* createWorkflowSteps(workflow): one step per node, in declaration order
CreateWorkflowSteps(wf) ==
  [i \in 1..Len(wf.nodes) |->
     [id |-> wf.nodes[i].id, name |-> wf.nodes[i].label,
      type |-> DetermineStepType(wf.nodes[i]),
      node |-> wf.nodes[i],
      dependencies |-> GetNodeDependencies(wf.nodes[i], wf),
      timeout |-> StepTimeout, retryAttempts |-> StepRetryAttempts]]

\* executeNode(node, context): the placeholder result
ExecuteNodeResult(node) == [nodeId |-> node.id, nodeType |-> node.type]

\* `step_${step.id}_result`
StepResultKey(id) ==
  CASE id = "A" -> "step_A_result"
    [] id = "B" -> "step_B_result"
    [] OTHER    -> "step_C_result"

\* metadata: { input, workflowId }
InitialMetadata(input, workflowId) ==
  [k \in {"input", "workflowId"} |-> IF k = "input" THEN input ELSE workflowId]

\* Math.round((i / totalSteps) * 100), a variant that rounds down
ProgressFloor(i, total) == (100 * i) \div total

\* Math.round((i / totalSteps) * 100)
Progress(i, total) == (200 * i + total) \div (2 * total)

IsTerminal(status) == status \in {"completed", "failed", "cancelled"}

\* cancelExecution, a variant that cancels whatever the status is
CancelAlways(status) == TRUE

\* if (context.status === 'running')
CanCancel(status) == status = "running"

\* a JavaScript number that is not an integer, kept exactly as num / den
Ratio(n, d) == [num |-> n, den |-> d]

\* the catch branch's counters, a variant that counts the failure as a success
CountFailureAsSuccess(m) ==
  [m EXCEPT !.totalExecutions = @ + 1, !.successfulExecutions = @ + 1]

\* this.metrics.totalExecutions++; this.metrics.failedExecutions++
CountFailure(m) ==
  [m EXCEPT !.totalExecutions = @ + 1, !.failedExecutions = @ + 1]

\* this.metrics.totalExecutions++; this.metrics.successfulExecutions++
CountSuccess(m) ==
  [m EXCEPT !.totalExecutions = @ + 1, !.successfulExecutions = @ + 1]

\* updateAverageExecutionTime(context): endTime has just been set, so the test
\* `if (context.endTime)` holds; average = (average + executionTime) / 2
UpdateAverageExecutionTime(m, ctx) ==
  LET a == m.averageExecutionTime
  IN [m EXCEPT !.averageExecutionTime =
        Ratio(a.num + (ctx.endTime - ctx.startTime) * a.den, 2 * a.den)]

\* (a / b) * 100, 0 when b is 0
Rate(a, b) == IF b > 0 THEN Ratio(a * 100, b) ELSE Ratio(0, 1)

\* getMetrics()
GetMetrics(m) ==
  [totalExecutions |-> m.totalExecutions,
   successfulExecutions |-> m.successfulExecutions,
   failedExecutions |-> m.failedExecutions,
   averageExecutionTime |-> m.averageExecutionTime,
   successRate |-> Rate(m.successfulExecutions, m.totalExecutions),
   failureRate |-> Rate(m.failedExecutions, m.totalExecutions)]

NoWfCall ==
  [pc |-> "none", workflowId |-> "", input |-> EmptyMap, i |-> 0, steps |-> <<>>,
   events |-> <<>>, armedAt |-> 0, error |-> "", leaked |-> {}, late |-> {}]

AsyncInit ==
  /\ workflows = {}
  /\ executions = EmptyMap
  /\ wfMetrics = [totalExecutions |-> 0, successfulExecutions |-> 0,
                  failedExecutions |-> 0, averageExecutionTime |-> Ratio(0, 1)]
  /\ wfCalls = EmptyMap
  /\ groups = EmptyMap

\* registerWorkflow(workflow)
RegisterWorkflow(w) ==
  /\ w.id \notin workflows
  /\ workflows' = workflows \cup {w.id}
  /\ UNCHANGED <<executions, wfMetrics, wfCalls, groups, memVars, cacheVars, engineVars>>

\* executeWorkflow(workflowId, input) up to emit('execution:started'), as a
\* function of the executions and the calls: the call gets the next execution
\* id, and a context unless the workflow is unknown
BeginWorkflow(st, workflowId, input) ==
  LET x == Cardinality(DOMAIN st.wfCalls) + 1
      c == [NoWfCall EXCEPT !.workflowId = workflowId, !.input = input]
  IN IF workflowId \notin workflows
     THEN [executions |-> st.executions,
           wfCalls |-> MapWith(st.wfCalls, x, [c EXCEPT !.pc = "rejected"])]
     ELSE [executions |-> MapWith(st.executions, x,
             [id |-> x, status |-> "pending", startTime |-> now, endTime |-> -1,
              progress |-> 0, currentStep |-> "initializing", errors |-> <<>>,
              metadata |-> InitialMetadata(input, workflowId)]),
           wfCalls |-> MapWith(st.wfCalls, x, [c EXCEPT !.pc = "started"])]

\* executeWorkflow(workflowId) up to emit('execution:started'): the listeners
\* of that event run here and see the pending context
ExecuteWorkflow(workflowId) ==
  LET r == BeginWorkflow([executions |-> executions, wfCalls |-> wfCalls],
                         workflowId, EmptyMap)
  IN /\ Cardinality(DOMAIN wfCalls) < MaxWfExec
     /\ executions' = r.executions
     /\ wfCalls' = r.wfCalls
     /\ UNCHANGED <<workflows, wfMetrics, groups, memVars, cacheVars, engineVars>>

\* the head of the for loop up to `await this.executeStep`, or the end of
\* executeWorkflowSteps when no step is left
StepOrReturn(ctx, call, i) ==
  IF i < Len(call.steps)
  THEN [ctx  |-> [ctx EXCEPT !.currentStep = call.steps[i + 1].name,
                             !.progress = Progress(i, Len(call.steps))],
        call |-> [call EXCEPT !.pc = "step", !.i = i, !.armedAt = now,
                              !.events = Append(@, <<"step:started",
                                                     call.steps[i + 1].name>>)]]
  ELSE [ctx  |-> [ctx EXCEPT !.progress = 100],
        call |-> [call EXCEPT !.pc = "stepsDone", !.i = i]]

\* executeWorkflowSteps from its first line to the first await
StartSteps(x) ==
  /\ x \in DOMAIN wfCalls
  /\ wfCalls[x].pc = "started"
  /\ LET steps == CreateWorkflowSteps(WorkflowOf(wfCalls[x].workflowId))
         r == StepOrReturn([executions[x] EXCEPT !.status = "running",
                                                 !.currentStep = "executing"],
                           [wfCalls[x] EXCEPT !.steps = steps], 0)
     IN /\ executions' = [executions EXCEPT ![x] = r.ctx]
        /\ wfCalls' = [wfCalls EXCEPT ![x] = r.call]
  /\ UNCHANGED <<workflows, wfMetrics, groups, memVars, cacheVars, engineVars>>

\* the race of executeStep is won by the step: record the result, go on
StepCompletes(x) ==
  /\ x \in DOMAIN wfCalls
  /\ wfCalls[x].pc = "step"
  /\ LET step == wfCalls[x].steps[wfCalls[x].i + 1]
         r == StepOrReturn(
                [executions[x] EXCEPT !.metadata =
                   MapWith(@, StepResultKey(step.id), ExecuteNodeResult(step.node))],
                [wfCalls[x] EXCEPT !.events = Append(@, <<"step:completed", step.name>>)],
                wfCalls[x].i + 1)
     IN /\ executions' = [executions EXCEPT ![x] = r.ctx]
        /\ wfCalls' = [wfCalls EXCEPT ![x] = r.call]
  /\ UNCHANGED <<workflows, wfMetrics, groups, memVars, cacheVars, engineVars>>

\* what a step throws: the handler of a node, or a listener of 'step:metrics'
\* or 'step:completed' called inside the try of the loop
StepErrors == {"Step error"}

\* new Error('Step timeout')
TimeoutError == "Step timeout"

\* step.timeout || options.timeout, a variant whose timer is due at once
EffectiveTimeoutZero(step, options) == 0

\* step.timeout || options.timeout
EffectiveTimeout(step, options) ==
  IF step.timeout # 0 THEN step.timeout ELSE options.timeout

\* the timer armed at instant armedAt for the step is due at instant t
TimerDue(armedAt, step, t) == t - armedAt >= EffectiveTimeout(step, DefaultOptions)

\* if (step.type === 'error-handler') continue; else throw error
ContinuesAfterError(step) == step.type = "error-handler"

\* the catch of the loop, a variant that starts a failed step once more when
\* its retryAttempts allow it and it has not failed before
StepCatchRetrying(ctx, call, message) ==
  LET step == call.steps[call.i + 1]
      ctx1 == [ctx EXCEPT !.errors = Append(@, [step |-> step.name, message |-> message])]
      call1 == [call EXCEPT !.events = Append(@, <<"step:failed", step.name>>)]
  IN IF step.retryAttempts > 0
        /\ \A n \in 1..Len(call.events) : call.events[n] # <<"step:failed", step.name>>
     THEN StepOrReturn(ctx1, call1, call.i)
     ELSE [ctx |-> ctx1, call |-> [call1 EXCEPT !.pc = "stepsFailed", !.error = message]]

\* the catch of the loop for the step awaited by the call: the error is pushed
\* on context.errors, step:failed is emitted, and the loop goes on with the
\* next step or the error is rethrown
StepCatch(ctx, call, message) ==
  LET step == call.steps[call.i + 1]
      ctx1 == [ctx EXCEPT !.errors = Append(@, [step |-> step.name, message |-> message])]
      call1 == [call EXCEPT !.events = Append(@, <<"step:failed", step.name>>)]
  IN IF ContinuesAfterError(step)
     THEN StepOrReturn(ctx1, call1, call.i + 1)
     ELSE [ctx |-> ctx1, call |-> [call1 EXCEPT !.pc = "stepsFailed", !.error = message]]

\* the race of executeStep rejects because the step throws
StepFails(x) ==
  /\ x \in DOMAIN wfCalls
  /\ wfCalls[x].pc = "step"
  /\ \E m \in StepErrors :
       LET r == StepCatch(executions[x], wfCalls[x], m)
       IN /\ executions' = [executions EXCEPT ![x] = r.ctx]
          /\ wfCalls' = [wfCalls EXCEPT ![x] = r.call]
  /\ UNCHANGED <<workflows, wfMetrics, groups, memVars, cacheVars, engineVars>>

\* the timer of the race fires before the step has settled: the race rejects
\* with the timeout error; step.execute is left running, nothing cancels it
StepTimesOut(x) ==
  /\ x \in DOMAIN wfCalls
  /\ wfCalls[x].pc = "step"
  /\ TimerDue(wfCalls[x].armedAt, wfCalls[x].steps[wfCalls[x].i + 1], now)
  /\ LET r == StepCatch(executions[x], wfCalls[x], TimeoutError)
     IN /\ executions' = [executions EXCEPT ![x] = r.ctx]
        /\ wfCalls' = [wfCalls EXCEPT ![x] =
             [r.call EXCEPT !.leaked = @ \cup {wfCalls[x].i + 1}]]
  /\ UNCHANGED <<workflows, wfMetrics, groups, memVars, cacheVars, engineVars>>

\* a step left running by a timeout settles: the race has already settled, so
\* its promise keeps the timeout error and the value is dropped
HandlerSettlesLate(x) ==
  /\ x \in DOMAIN wfCalls
  /\ wfCalls[x].leaked # {}
  /\ \E k \in wfCalls[x].leaked :
       wfCalls' = [wfCalls EXCEPT ![x].leaked = @ \ {k}, ![x].late = @ \cup {k}]
  /\ UNCHANGED <<executions, workflows, wfMetrics, groups, memVars, cacheVars, engineVars>>

\* executeWorkflow after `await this.executeWorkflowSteps`, the try branch
FinishWorkflow(x) ==
  /\ x \in DOMAIN wfCalls
  /\ wfCalls[x].pc = "stepsDone"
  /\ executions' = [executions EXCEPT ![x].status = "completed",
                                      ![x].endTime = now, ![x].progress = 100]
  /\ wfMetrics' = UpdateAverageExecutionTime(CountSuccess(wfMetrics), executions'[x])
  /\ wfCalls' = [wfCalls EXCEPT ![x].pc = "resolved"]
  /\ UNCHANGED <<workflows, groups, memVars, cacheVars, engineVars>>

\* executeWorkflow, the catch branch
FailWorkflow(x) ==
  /\ x \in DOMAIN wfCalls
  /\ wfCalls[x].pc = "stepsFailed"
  /\ executions' = [executions EXCEPT ![x].status = "failed", ![x].endTime = now,
                                      ![x].errors = Append(@, [step |-> "",
                                                     message |-> wfCalls[x].error])]
  /\ wfMetrics' = CountFailure(wfMetrics)
  /\ wfCalls' = [wfCalls EXCEPT ![x].pc = "rejected"]
  /\ UNCHANGED <<workflows, groups, memVars, cacheVars, engineVars>>

\* cancelExecution(executionId) at instant t: whether it throws, and the
\* executions it leaves
CancelResult(execs, x, t) ==
  IF x \notin DOMAIN execs
  THEN [threw |-> TRUE, executions |-> execs]
  ELSE IF CanCancel(execs[x].status)
  THEN [threw |-> FALSE,
        executions |-> [execs EXCEPT ![x].status = "cancelled", ![x].endTime = t]]
  ELSE [threw |-> FALSE, executions |-> execs]

\* cancelExecution(executionId)
CancelExecution(x) ==
  /\ executions' = CancelResult(executions, x, now).executions
  /\ UNCHANGED <<workflows, wfMetrics, wfCalls, groups, memVars, cacheVars, engineVars>>

\* -------------------------------------------------------------------------
\* executeWorkflowsParallel, executeWorkflowsSequence, executeWorkflowsConditional
\* -------------------------------------------------------------------------
\* the workflow ids and the id lists callers pass
GroupWorkflowIds == {"w0", "w1"}

IdLists == UNION {[1..n -> GroupWorkflowIds] : n \in 0..MaxWfExec}

GroupInputs == {[a |-> 1]}

\* the predicates callers pass: true, false, `ctx => ctx.status === 'completed'`
Predicates == {"always", "never", "completed"}

CondLists ==
  UNION {[1..n -> [condition : Predicates, workflowId : GroupWorkflowIds]] :
           n \in 0..MaxWfExec}

\* no defaultWorkflowId
NoDefault == ""

\* the context a predicate sees before any execution: status 'pending'
SyntheticContext == [id |-> 0, status |-> "pending", metadata |-> EmptyMap]

\* condition.condition(context)
Holds(pred, ctx) ==
  CASE pred = "always"  -> TRUE
    [] pred = "never"   -> FALSE
    [] pred = "pending" -> ctx.status = "pending"
    [] OTHER            -> ctx.status = "completed"

NoGroup ==
  [kind |-> "", pc |-> "none", ids |-> <<>>, input |-> EmptyMap, conds |-> <<>>,
   default |-> NoDefault, members |-> <<>>, k |-> 0, result |-> <<>>,
   pred |-> ""]

GroupIdFree == Cardinality(DOMAIN groups) < MaxGroups

ExecIdFree == Cardinality(DOMAIN wfCalls) < MaxWfExec

\* workflowIds.map(workflowId => this.executeWorkflow(workflowId, input, options))
RECURSIVE StartAll(_, _, _)
StartAll(st, ids, input) ==
  IF ids = <<>> THEN st
  ELSE StartAll(BeginWorkflow(st, Head(ids), input), Tail(ids), input)

\* Promise.all over the promises of the members, a variant that resolves with
\* the contexts of the members that succeeded
PromiseAllSettled(members, wcalls) ==
  IF \A i \in 1..Len(members) : wcalls[members[i]].pc \in {"resolved", "rejected"}
  THEN [pc |-> "resolved",
        result |-> SelectSeq(members, LAMBDA m : wcalls[m].pc = "resolved")]
  ELSE [pc |-> "waiting", result |-> <<>>]

\* Promise.all over the promises of the members
PromiseAll(members, wcalls) ==
  IF \E i \in 1..Len(members) : wcalls[members[i]].pc = "rejected"
  THEN [pc |-> "rejected", result |-> <<>>]
  ELSE IF \A i \in 1..Len(members) : wcalls[members[i]].pc = "resolved"
  THEN [pc |-> "resolved", result |-> members]
  ELSE [pc |-> "waiting", result |-> <<>>]

\* executeWorkflowsParallel(ids, input) up to `return Promise.all(executions)`
ParallelStart(ids, input) ==
  LET g    == Cardinality(DOMAIN groups) + 1
      base == Cardinality(DOMAIN wfCalls)
      st   == StartAll([executions |-> executions, wfCalls |-> wfCalls], ids, input)
  IN /\ GroupIdFree
     /\ base + Len(ids) <= MaxWfExec
     /\ executions' = st.executions
     /\ wfCalls' = st.wfCalls
     /\ groups' = MapWith(groups, g,
          [NoGroup EXCEPT !.kind = "parallel", !.pc = "waiting", !.ids = ids,
                          !.input = input,
                          !.members = [i \in 1..Len(ids) |-> base + i]])
     /\ UNCHANGED <<workflows, wfMetrics, memVars, cacheVars, engineVars>>

\* the promise of Promise.all settles
ParallelSettle(g) ==
  /\ g \in DOMAIN groups
  /\ groups[g].kind = "parallel"
  /\ groups[g].pc = "waiting"
  /\ LET r == PromiseAll(groups[g].members, wfCalls)
     IN /\ r.pc # "waiting"
        /\ groups' = [groups EXCEPT ![g].pc = r.pc, ![g].result = r.result]
  /\ UNCHANGED <<workflows, executions, wfMetrics, wfCalls, memVars, cacheVars, engineVars>>

\* `await this.executeWorkflow(...)`, a variant that does not wait
NoAwait(pc) == TRUE

\* `await this.executeWorkflow(...)` resumes once the promise has settled
AwaitSettled(pc) == pc \in {"resolved", "rejected"}

\* if (execution.metadata.output) input = { ...input, ...execution.metadata.output }
ThreadInput(input, metadata) ==
  IF "output" \in DOMAIN metadata THEN Spread(input, metadata["output"]) ELSE input

\* executeWorkflowsSequence(ids, input) up to its first await
SequenceStart(ids, input) ==
  LET g  == Cardinality(DOMAIN groups) + 1
      x  == Cardinality(DOMAIN wfCalls) + 1
      st == BeginWorkflow([executions |-> executions, wfCalls |-> wfCalls],
                          ids[1], input)
      gr == [NoGroup EXCEPT !.kind = "sequence", !.ids = ids, !.input = input]
  IN /\ GroupIdFree
     /\ IF ids = <<>>
        THEN /\ groups' = MapWith(groups, g, [gr EXCEPT !.pc = "resolved"])
             /\ UNCHANGED <<executions, wfCalls>>
        ELSE /\ ExecIdFree
             /\ executions' = st.executions
             /\ wfCalls' = st.wfCalls
             /\ groups' = MapWith(groups, g,
                  [gr EXCEPT !.pc = "waiting", !.k = 1, !.members = <<x>>])
     /\ UNCHANGED <<workflows, wfMetrics, memVars, cacheVars, engineVars>>

\* executeWorkflowsSequence after `await this.executeWorkflow`: the await throws
\* and the call rejects, or the context is pushed, the input threaded, and the
\* loop starts the next workflow or the call returns
SequenceStep(g) ==
  /\ g \in DOMAIN groups
  /\ groups[g].kind = "sequence"
  /\ groups[g].pc = "waiting"
  /\ LET gr == groups[g]
         m  == gr.members[Len(gr.members)]
         x  == Cardinality(DOMAIN wfCalls) + 1
         input1 == ThreadInput(gr.input, executions[m].metadata)
         st == BeginWorkflow([executions |-> executions, wfCalls |-> wfCalls],
                             gr.ids[gr.k + 1], input1)
     IN /\ AwaitSettled(wfCalls[m].pc)
        /\ IF wfCalls[m].pc = "rejected"
           THEN /\ groups' = [groups EXCEPT ![g].pc = "rejected"]
                /\ UNCHANGED <<executions, wfCalls>>
           ELSE IF gr.k = Len(gr.ids)
           THEN /\ groups' = [groups EXCEPT ![g].pc = "resolved",
                                            ![g].input = input1,
                                            ![g].result = Append(@, m)]
                /\ UNCHANGED <<executions, wfCalls>>
           ELSE /\ ExecIdFree
                /\ executions' = st.executions
                /\ wfCalls' = st.wfCalls
                /\ groups' = [groups EXCEPT ![g].k = @ + 1,
                                            ![g].input = input1,
                                            ![g].members = Append(@, x),
                                            ![g].result = Append(@, m)]
  /\ UNCHANGED <<workflows, wfMetrics, memVars, cacheVars, engineVars>>

\* the for loop of executeWorkflowsConditional from condition k on: the index of
\* the first condition that holds of the context, 0 when none does
RECURSIVE NextCondition(_, _, _)
NextCondition(conds, k, ctx) ==
  IF k > Len(conds) THEN 0
  ELSE IF Holds(conds[k].condition, ctx) THEN k
  ELSE NextCondition(conds, k + 1, ctx)

\* if (defaultWorkflowId && executions.length === 0)
RunsDefault(default, result) == default # NoDefault /\ result = <<>>

\* executeWorkflowsConditional from condition k on, up to the next await or the
\* return: run the next workflow whose condition holds, else the default, else
\* return
ConditionalGo(g, gr, k, ctx) ==
  LET j  == NextCondition(gr.conds, k, ctx)
      x  == Cardinality(DOMAIN wfCalls) + 1
      wf == IF j > 0 THEN gr.conds[j].workflowId ELSE gr.default
      st == BeginWorkflow([executions |-> executions, wfCalls |-> wfCalls],
                          wf, EmptyMap)
  IN IF j > 0 \/ RunsDefault(gr.default, gr.result)
     THEN /\ ExecIdFree
          /\ executions' = st.executions
          /\ wfCalls' = st.wfCalls
          /\ groups' = MapWith(groups, g,
               [gr EXCEPT !.pc = "waiting", !.k = j, !.members = Append(@, x)])
     ELSE /\ groups' = MapWith(groups, g, [gr EXCEPT !.pc = "resolved"])
          /\ UNCHANGED <<executions, wfCalls>>

\* executeWorkflowsConditional(conditions, defaultWorkflowId) up to its first
\* await
ConditionalStart(conds, default) ==
  /\ GroupIdFree
  /\ ConditionalGo(Cardinality(DOMAIN groups) + 1,
                   [NoGroup EXCEPT !.kind = "conditional", !.conds = conds,
                                   !.default = default],
                   1, SyntheticContext)
  /\ UNCHANGED <<workflows, wfMetrics, memVars, cacheVars, engineVars>>

\* executeWorkflowsConditional after an await: the await throws and the call
\* rejects, or the context is pushed and becomes the one the next conditions
\* are evaluated against; after the default the call returns
ConditionalStep(g) ==
  /\ g \in DOMAIN groups
  /\ groups[g].kind = "conditional"
  /\ groups[g].pc = "waiting"
  /\ LET gr == groups[g]
         m  == gr.members[Len(gr.members)]
         g1 == [gr EXCEPT !.result = Append(@, m)]
     IN /\ AwaitSettled(wfCalls[m].pc)
        /\ IF wfCalls[m].pc = "rejected"
           THEN /\ groups' = [groups EXCEPT ![g].pc = "rejected"]
                /\ UNCHANGED <<executions, wfCalls>>
           ELSE IF gr.k = 0
           THEN /\ groups' = [groups EXCEPT ![g] = [g1 EXCEPT !.pc = "resolved"]]
                /\ UNCHANGED <<executions, wfCalls>>
           ELSE ConditionalGo(g, g1, gr.k + 1, executions[m])
  /\ UNCHANGED <<workflows, wfMetrics, memVars, cacheVars, engineVars>>

\* -------------------------------------------------------------------------
\* executeWorkflowsLoop
\* -------------------------------------------------------------------------
\* the predicates callers pass as loopCondition: the ones above and
\* `ctx => ctx.status === 'pending'`
LoopPredicates == {"always", "never", "completed", "pending"}

\* the argument of loopCondition, a variant that keeps passing the synthetic
\* context
LoopContextSynthetic(result, execs) == SyntheticContext

\* context || { id: '', status: 'pending', ... }: the context of the last
\* execution pushed, the synthetic one before the first
LoopContext(result, execs) ==
  IF result = <<>> THEN SyntheticContext ELSE execs[result[Len(result)]]

\* the head of the while loop up to the await, or the return
LoopGo(g, gr) ==
  LET x  == Cardinality(DOMAIN wfCalls) + 1
      st == BeginWorkflow([executions |-> executions, wfCalls |-> wfCalls],
                          gr.ids[1], gr.input)
  IN IF Holds(gr.pred, LoopContext(gr.result, executions))
     THEN /\ ExecIdFree
          /\ executions' = st.executions
          /\ wfCalls' = st.wfCalls
          /\ groups' = MapWith(groups, g,
               [gr EXCEPT !.pc = "waiting", !.members = Append(@, x)])
     ELSE /\ groups' = MapWith(groups, g, [gr EXCEPT !.pc = "resolved"])
          /\ UNCHANGED <<executions, wfCalls>>

\* executeWorkflowsLoop(workflowId, loopCondition, input) up to its first await
LoopStart(workflowId, pred, input) ==
  /\ GroupIdFree
  /\ LoopGo(Cardinality(DOMAIN groups) + 1,
            [NoGroup EXCEPT !.kind = "loop", !.ids = <<workflowId>>,
                            !.pred = pred, !.input = input])
  /\ UNCHANGED <<workflows, wfMetrics, memVars, cacheVars, engineVars>>

\* executeWorkflowsLoop after `await this.executeWorkflow`: the await throws and
\* the call rejects, or the context is pushed and the condition evaluated again
LoopStep(g) ==
  /\ g \in DOMAIN groups
  /\ groups[g].kind = "loop"
  /\ groups[g].pc = "waiting"
  /\ LET gr == groups[g]
         m  == gr.members[Len(gr.members)]
     IN /\ AwaitSettled(wfCalls[m].pc)
        /\ IF wfCalls[m].pc = "rejected"
           THEN /\ groups' = [groups EXCEPT ![g].pc = "rejected"]
                /\ UNCHANGED <<executions, wfCalls>>
           ELSE LoopGo(g, [gr EXCEPT !.result = Append(@, m)])
  /\ UNCHANGED <<workflows, wfMetrics, memVars, cacheVars, engineVars>>

\* =========================================================================
\* Specifications
\* =========================================================================
Init == MemInit /\ CacheInit /\ EngineInit /\ AsyncInit

MemNext ==
  \/ \E id \in NodeIds, u \in 0..MaxUsage : MemUpdate(id, u)
  \/ MemReset

SpecMem == Init /\ [][MemNext]_vars

CacheNext ==
  \/ \E k \in CacheKeys : CacheGet(k)
  \/ \E k \in CacheKeys, d \in SampleData : CacheSet(k, d)
  \/ \E k \in CacheKeys : CacheDelete(k)
  \/ CacheClear
  \/ Tick

SpecCache == Init /\ [][CacheNext]_vars

\* The engine reads the clock only in the FlowCache, which compares it with the
\* timestamps of the stored entries: with nothing stored every instant is alike,
\* so the clock is let advance once an entry is stored.
EngineTick == cache # EmptyMap /\ Tick

Next ==
  \/ \E d \in Defs : RegisterFlow(d)
  \/ \E f \in FlowIds, i \in Inputs : ExecuteFlow(f, i)
  \/ \E e \in ExecIds : ReturnCached(e)
  \/ \E e \in ExecIds : StartInstance(e)
  \/ \E e \in ExecIds : HandlerReturn(e)
  \/ \E e \in ExecIds : HandlerThrow(e)
  \/ \E e \in ExecIds : Advance(e)
  \/ \E e \in ExecIds : StoreResult(e)
  \/ \E e \in ExecIds : Complete(e)
  \/ \E e \in ExecIds : Fail(e)
  \/ EngineTick

Spec == Init /\ [][Next]_vars

AsyncNext ==
  \/ \E w \in {WfTwo, WfEmpty} : RegisterWorkflow(w)
  \/ \E id \in GroupWorkflowIds : ExecuteWorkflow(id)
  \/ \E x \in WfExecIds : StartSteps(x)
  \/ \E x \in WfExecIds : StepCompletes(x)
  \/ \E x \in WfExecIds : StepFails(x)
  \/ \E x \in WfExecIds : FinishWorkflow(x)
  \/ \E x \in WfExecIds : FailWorkflow(x)
  \/ \E x \in WfExecIds : CancelExecution(x)
  \/ Tick

SpecAsync == Init /\ [][AsyncNext]_vars

\* the composite calls of the AsyncWorkflowEngine
GroupNext ==
  \/ \E w \in {WfTwo, WfEmpty} : RegisterWorkflow(w)
  \/ \E ids \in IdLists, i \in GroupInputs : ParallelStart(ids, i)
  \/ \E ids \in IdLists, i \in GroupInputs : SequenceStart(ids, i)
  \/ \E cs \in CondLists, d \in GroupWorkflowIds \cup {NoDefault} : ConditionalStart(cs, d)
  \/ \E g \in 1..MaxGroups : ParallelSettle(g)
  \/ \E g \in 1..MaxGroups : SequenceStep(g)
  \/ \E g \in 1..MaxGroups : ConditionalStep(g)
  \/ \E x \in WfExecIds : StartSteps(x)
  \/ \E x \in WfExecIds : StepCompletes(x)
  \/ \E x \in WfExecIds : StepFails(x)
  \/ \E x \in WfExecIds : FinishWorkflow(x)
  \/ \E x \in WfExecIds : FailWorkflow(x)
  \/ \E x \in WfExecIds : CancelExecution(x)

SpecGroup == Init /\ [][GroupNext]_vars

\* executeWorkflowsParallel alone
ParallelNext ==
  \/ \E w \in {WfTwo, WfEmpty} : RegisterWorkflow(w)
  \/ \E ids \in IdLists, i \in GroupInputs : ParallelStart(ids, i)
  \/ \E g \in 1..MaxGroups : ParallelSettle(g)
  \/ \E x \in WfExecIds : StartSteps(x)
  \/ \E x \in WfExecIds : StepCompletes(x)
  \/ \E x \in WfExecIds : StepFails(x)
  \/ \E x \in WfExecIds : FinishWorkflow(x)
  \/ \E x \in WfExecIds : FailWorkflow(x)
  \/ \E x \in WfExecIds : CancelExecution(x)

SpecParallel == Init /\ [][ParallelNext]_vars

\* executeWorkflowsSequence alone
SequenceNext ==
  \/ \E w \in {WfTwo, WfEmpty} : RegisterWorkflow(w)
  \/ \E ids \in IdLists, i \in GroupInputs : SequenceStart(ids, i)
  \/ \E g \in 1..MaxGroups : SequenceStep(g)
  \/ \E x \in WfExecIds : StartSteps(x)
  \/ \E x \in WfExecIds : StepCompletes(x)
  \/ \E x \in WfExecIds : StepFails(x)
  \/ \E x \in WfExecIds : FinishWorkflow(x)
  \/ \E x \in WfExecIds : FailWorkflow(x)
  \/ \E x \in WfExecIds : CancelExecution(x)

SpecSequence == Init /\ [][SequenceNext]_vars

\* executeWorkflow on workflows of two nodes, one of them with its only edge
\* from the second node to the first
StepsNext ==
  \/ \E w \in {WfTwo, WfRev} : RegisterWorkflow(w)
  \/ \E id \in {WfTwo.id, WfRev.id} : ExecuteWorkflow(id)
  \/ \E x \in WfExecIds : StartSteps(x)
  \/ \E x \in WfExecIds : StepCompletes(x)
  \/ \E x \in WfExecIds : StepFails(x)
  \/ \E x \in WfExecIds : FinishWorkflow(x)
  \/ \E x \in WfExecIds : FailWorkflow(x)
  \/ \E x \in WfExecIds : CancelExecution(x)

SpecSteps == Init /\ [][StepsNext]_vars

\* Between two awaits of a timer or of a handler executeWorkflow does not yield
\* to the event loop, and once its timer is due a step is overtaken or settles
\* the same at every later instant: the clock is let advance while a step is
\* awaited whose timer is not due yet.
StepTick ==
  /\ \E x \in DOMAIN wfCalls :
       /\ wfCalls[x].pc = "step"
       /\ ~ TimerDue(wfCalls[x].armedAt, wfCalls[x].steps[wfCalls[x].i + 1], now)
  /\ Tick

\* executeWorkflow with steps that take time and do not throw: each step may
\* settle or be overtaken by its timer
TimeoutNext ==
  \/ RegisterWorkflow(WfTwo)
  \/ ExecuteWorkflow(WfTwo.id)
  \/ \E x \in WfExecIds : StartSteps(x)
  \/ \E x \in WfExecIds : StepCompletes(x)
  \/ \E x \in WfExecIds : StepTimesOut(x)
  \/ \E x \in WfExecIds : HandlerSettlesLate(x)
  \/ \E x \in WfExecIds : FinishWorkflow(x)
  \/ \E x \in WfExecIds : FailWorkflow(x)
  \/ StepTick

SpecTimeout == Init /\ [][TimeoutNext]_vars

\* executeWorkflow on a workflow of three nodes and on one without nodes
ProgressNext ==
  \/ \E w \in {WfThree, WfEmpty} : RegisterWorkflow(w)
  \/ \E id \in {WfThree.id, WfEmpty.id} : ExecuteWorkflow(id)
  \/ \E x \in WfExecIds : StartSteps(x)
  \/ \E x \in WfExecIds : StepCompletes(x)
  \/ \E x \in WfExecIds : StepFails(x)
  \/ \E x \in WfExecIds : FinishWorkflow(x)
  \/ \E x \in WfExecIds : FailWorkflow(x)

SpecProgress == Init /\ [][ProgressNext]_vars

\* the engine on definitions with several edges for one source and with a
\* condition that throws; no handler of these definitions throws
GraphNext ==
  \/ \E d \in GraphDefs : RegisterFlow(d)
  \/ \E f \in FlowIds, i \in Inputs : ExecuteFlow(f, i)
  \/ \E e \in ExecIds : ReturnCached(e)
  \/ \E e \in ExecIds : StartInstance(e)
  \/ \E e \in ExecIds : HandlerReturn(e)
  \/ \E e \in ExecIds : Advance(e)
  \/ \E e \in ExecIds : StoreResult(e)
  \/ \E e \in ExecIds : Complete(e)
  \/ EngineTick

SpecGraph == Init /\ [][GraphNext]_vars

\* one step of the engine on behalf of the call: a continuation the event loop
\* has queued, or the handler of the node returning
EngineStep(e) ==
  \/ ReturnCached(e)
  \/ StartInstance(e)
  \/ HandlerReturn(e)
  \/ Advance(e)
  \/ StoreResult(e)
  \/ Complete(e)

\* the engine on a definition without a cycle and on one with a cycle, called
\* with the empty input; no handler of these definitions throws
CycleNext ==
  \/ \E d \in CycleDefs : RegisterFlow(d)
  \/ \E f \in FlowIds : ExecuteFlow(f, <<>>)
  \/ \E e \in ExecIds : ReturnCached(e)
  \/ \E e \in ExecIds : StartInstance(e)
  \/ \E e \in ExecIds : HandlerReturn(e)
  \/ \E e \in ExecIds : Advance(e)
  \/ \E e \in ExecIds : StoreResult(e)
  \/ \E e \in ExecIds : Complete(e)

\* the call has a continuation queued or a handler running: EngineStep(e) can
\* take a step
Runnable(e) ==
  /\ e \in DOMAIN calls
  /\ \/ calls[e].pc \in {"cacheGet", "handler", "traversed"}
     \/ calls[e].pc = "reported" /\ Len(calls[e].executionPath) < MaxSteps
     \/ calls[e].pc = "cacheSet" /\ calls[e].after \cap AwaitingSet(calls) = {}

\* EngineStep(e) seen from the position of the call alone: a runnable call
\* leaves its position
Resume(e) ==
  /\ Runnable(e)
  /\ \E p \in {"handler", "reported", "traversed", "cacheSet", "resolved"} \ {calls[e].pc} :
       calls' = [calls EXCEPT ![e].pc = p]

\* Resume(e) is enabled exactly when EngineStep(e) is
ResumeIsEngineStep ==
  \A e \in ExecIds : (ENABLED Resume(e)) <=> (ENABLED EngineStep(e))

\* the position of a call changes by its own engine steps only, and each of
\* them changes it
PositionMovesByEngineStep ==
  [][\A e \in DOMAIN calls :
       (calls'[e].pc # calls[e].pc) <=> EngineStep(e)]_vars

\* the event loop runs every continuation it has queued and every handler
\* terminates: no call stays runnable for ever
SpecCycle ==
  Init /\ [][CycleNext]_vars /\ \A e \in ExecIds : WF_calls(Resume(e))

\* executeWorkflowsLoop alone
LoopNext ==
  \/ \E w \in {WfTwo, WfEmpty} : RegisterWorkflow(w)
  \/ \E id \in GroupWorkflowIds, p \in LoopPredicates, i \in GroupInputs :
        LoopStart(id, p, i)
  \/ \E g \in 1..MaxGroups : LoopStep(g)
  \/ \E x \in WfExecIds : StartSteps(x)
  \/ \E x \in WfExecIds : StepCompletes(x)
  \/ \E x \in WfExecIds : StepFails(x)
  \/ \E x \in WfExecIds : FinishWorkflow(x)
  \/ \E x \in WfExecIds : FailWorkflow(x)
  \/ \E x \in WfExecIds : CancelExecution(x)

SpecLoop == Init /\ [][LoopNext]_vars

\* the engine called with the object {a: 1, b: 2} built in its two insertion
\* orders
KeyInputs == { << <<"a", 1>>, <<"b", 2>> >>, << <<"b", 2>>, <<"a", 1>> >> }

KeyNext ==
  \/ \E d \in Defs : RegisterFlow(d)
  \/ \E f \in FlowIds, i \in KeyInputs : ExecuteFlow(f, i)
  \/ \E e \in ExecIds : ReturnCached(e)
  \/ \E e \in ExecIds : StartInstance(e)
  \/ \E e \in ExecIds : HandlerReturn(e)
  \/ \E e \in ExecIds : HandlerThrow(e)
  \/ \E e \in ExecIds : Advance(e)
  \/ \E e \in ExecIds : StoreResult(e)
  \/ \E e \in ExecIds : Complete(e)
  \/ \E e \in ExecIds : Fail(e)
  \/ EngineTick

SpecKey == Init /\ [][KeyNext]_vars

\* the engine with definitions that name absent nodes
LazyNext ==
  \/ \E d \in LazyDefs : RegisterFlow(d)
  \/ \E f \in FlowIds, i \in Inputs : ExecuteFlow(f, i)
  \/ \E e \in ExecIds : ReturnCached(e)
  \/ \E e \in ExecIds : StartInstance(e)
  \/ \E e \in ExecIds : HandlerReturn(e)
  \/ \E e \in ExecIds : HandlerThrow(e)
  \/ \E e \in ExecIds : Advance(e)
  \/ \E e \in ExecIds : StoreResult(e)
  \/ \E e \in ExecIds : Complete(e)
  \/ \E e \in ExecIds : Fail(e)
  \/ EngineTick

SpecLazy == Init /\ [][LazyNext]_vars

\* the engine with a definition that holds a node of an unregistered type
TypeNext ==
  \/ \E d \in TypeDefs : RegisterFlow(d)
  \/ \E f \in FlowIds, i \in Inputs : ExecuteFlow(f, i)
  \/ \E e \in ExecIds : ReturnCached(e)
  \/ \E e \in ExecIds : StartInstance(e)
  \/ \E e \in ExecIds : HandlerReturn(e)
  \/ \E e \in ExecIds : HandlerThrow(e)
  \/ \E e \in ExecIds : Advance(e)
  \/ \E e \in ExecIds : StoreResult(e)
  \/ \E e \in ExecIds : Complete(e)
  \/ \E e \in ExecIds : Fail(e)
  \/ EngineTick

SpecTypes == Init /\ [][TypeNext]_vars

\* the engine with definitions that start with a validation node
\* the engine with observers subscribed to the events of its cache and of its
\* memory manager, whose listeners may throw
FaultNext ==
  \/ \E d \in Defs : RegisterFlow(d)
  \/ \E f \in FlowIds, i \in Inputs : ExecuteFlow(f, i)
  \/ \E e \in ExecIds : ReturnCached(e)
  \/ \E e \in ExecIds : CacheGetFaults(e)
  \/ \E e \in ExecIds : StartInstance(e)
  \/ \E e \in ExecIds : HandlerReturn(e)
  \/ \E e \in ExecIds : HandlerThrow(e)
  \/ \E e \in ExecIds : UpdateUsageFaults(e)
  \/ \E e \in ExecIds : Advance(e)
  \/ \E e \in ExecIds : StoreResult(e)
  \/ \E e \in ExecIds : CacheSetFaults(e)
  \/ \E e \in ExecIds : Complete(e)
  \/ \E e \in ExecIds : Fail(e)
  \/ EngineTick

SpecFaults == Init /\ [][FaultNext]_vars

ValidationNext ==
  \/ \E d \in ValidationDefs : RegisterFlow(d)
  \/ \E f \in FlowIds, i \in Inputs : ExecuteFlow(f, i)
  \/ \E e \in ExecIds : ReturnCached(e)
  \/ \E e \in ExecIds : StartInstance(e)
  \/ \E e \in ExecIds : HandlerReturn(e)
  \/ \E e \in ExecIds : Advance(e)
  \/ \E e \in ExecIds : StoreResult(e)
  \/ \E e \in ExecIds : Complete(e)
  \/ EngineTick

SpecValidation == Init /\ [][ValidationNext]_vars

\* =========================================================================
\* Properties
\* =========================================================================
LastMemCall == memCalls[Len(memCalls)]

\* total before the last call
TotalBefore(c) == c.peak - c.usage + c.prev

Contributes(id, y) ==
  \E i \in 1..Len(memoryUsage) : memoryUsage[i].id = id /\ memoryUsage[i].usage = y

TotalIsSum == currentUsage = SumUsage(memoryUsage)

TwoCallsSameId == Len(memCalls) = 2 /\ memCalls[1].id = memCalls[2].id

EvictedIds(c) == {c.evicted[i].id : i \in 1..Len(c.evicted)}

\* C7 as stated: total() is always the sum of the recorded usages, and
\* updateUsage(id, X) directly followed by updateUsage(id, Y) always changes the
\* total by Y - X and always leaves id contributing Y.
C7_ReplacementUnconditional ==
  /\ TotalIsSum
  /\ TwoCallsSameId =>
       /\ currentUsage - TotalBefore(memCalls[2]) = memCalls[2].usage - memCalls[1].usage
       /\ Contributes(memCalls[2].id, memCalls[2].usage)

\* C7 amended: total() is always the sum of the recorded usages; a call
\* updateUsage(id, Y) that triggers no eviction changes the total by Y minus the
\* usage recorded for id (X after updateUsage(id, X), unless that call's own
\* eviction pass removed id), and id contributes Y afterwards unless the
\* eviction pass of the call itself removed id.
C7_ReplacementSemantics ==
  /\ TotalIsSum
  /\ memCalls # <<>> =>
       LET c == LastMemCall IN
       /\ c.evicted = <<>> => currentUsage - TotalBefore(c) = c.usage - c.prev
       /\ c.id \notin EvictedIds(c) => Contributes(c.id, c.usage)
       /\ c.id \in EvictedIds(c) => c.id \notin MapIds(memoryUsage)
  /\ (TwoCallsSameId /\ ~ memCalls[1].self /\ memCalls[2].evicted = <<>>) =>
       /\ memCalls[2].prev = memCalls[1].usage
       /\ currentUsage - TotalBefore(memCalls[2]) = memCalls[2].usage - memCalls[1].usage

\* C7 witness: X then a different Y for the same contributor, other contributors
\* present, no eviction involved
C7_Witness ==
  /\ TwoCallsSameId
  /\ memCalls[1].usage > 0
  /\ memCalls[2].usage # memCalls[1].usage
  /\ ~ memCalls[1].self
  /\ memCalls[2].evicted = <<>>
  /\ Len(memoryUsage) >= 2

RECURSIVE SumFirst(_, _)
SumFirst(ev, n) == IF n = 0 THEN 0 ELSE ev[n].usage + SumFirst(ev, n - 1)

C5_EvictsLeastRecentlyAccessed ==
  [][\A k \in CacheKeys :
       (/\ k \notin DOMAIN cache
        /\ k \in DOMAIN cache'
        /\ Cardinality(DOMAIN cache) = MaxSize
        /\ \A x \in DOMAIN cache : now - cache[x].timestamp <= TTL)
       => /\ touchOrder # <<>>
          /\ DOMAIN cache' = (DOMAIN cache \ {touchOrder[1]}) \cup {k}]_vars

\* C5 witness: an evicting set after which a key inserted before the victim
\* is still stored (a get protected it)
C5_Witness ==
  /\ cacheLog.op = "set"
  /\ cacheLog.evicted # <<>>
  /\ cacheLog.evicted[1] # cacheLog.key
  /\ Cardinality(DOMAIN cache) = MaxSize
  /\ \E x \in DOMAIN cache :
       x # cacheLog.key /\ cache[x].timestamp < cacheLog.stamp

\* C6: under any interleaving of get, set, delete and clear the cache never
\* holds more than MaxSize entries and the recency list holds exactly the stored
\* keys, each once.
C6_BoundedAndConsistent ==
  /\ Cardinality(DOMAIN cache) <= MaxSize
  /\ Len(accessOrder) = Cardinality(DOMAIN cache)
  /\ {accessOrder[i] : i \in 1..Len(accessOrder)} = DOMAIN cache

\* C6 witness: a full cache right after a set that had to evict
C6_Witness ==
  /\ cacheLog.op = "set"
  /\ cacheLog.evicted # <<>>
  /\ Cardinality(DOMAIN cache) = MaxSize
  /\ Len(accessOrder) = MaxSize

IsSettled(e) == e \in DOMAIN calls /\ calls[e].pc \in {"resolved", "rejected"}

\* C2: once an executeFlow call has settled, resolved or rejected, its instance
\* is no longer among the active flows.
C2_SettledInstanceRemoved ==
  \A e \in ExecIds : IsSettled(e) => e \notin GetActiveFlows

HasUnexpired(k) == k \in DOMAIN cache /\ now - cache[k].timestamp <= TTL

IsCalled(e) == e \notin DOMAIN calls /\ e \in DOMAIN calls'

\* C3: a call made while an unexpired entry is stored for its (flowId, input)
\* obtains the stored result and returns exactly it, and neither of its two
\* steps dispatches a handler, adds an instance to the active flows, or changes
\* the MemoryManager totals or the execution metrics.
C3_CacheHitReturnsStored ==
  [][\A e \in ExecIds :
       /\ (/\ IsCalled(e)
           /\ flowDefinitions[calls'[e].flowId] # NoDef
           /\ HasUnexpired(GenerateCacheKey(calls'[e].flowId, calls'[e].input)))
          => /\ calls'[e].pc = "cacheGet"
             /\ calls'[e].cached =
                  cache[GenerateCacheKey(calls'[e].flowId, calls'[e].input)].data
             /\ UNCHANGED <<memoryUsage, currentUsage, metrics, activeFlows>>
       /\ (/\ e \in DOMAIN calls
           /\ calls[e].pc = "cacheGet"
           /\ calls[e].cached # Null
           /\ calls'[e] # calls[e])
          => /\ calls'[e].pc = "resolved"
             /\ calls'[e].result = calls[e].cached
             /\ calls'[e].dispatched = <<>>
             /\ e \notin DOMAIN activeFlows'
             /\ UNCHANGED <<memoryUsage, currentUsage, metrics, activeFlows>>]_vars

\* C3 witness: a call that returned the result another call had stored
C3_Witness ==
  \E e \in ExecIds :
    /\ e \in DOMAIN calls
    /\ calls[e].pc = "resolved"
    /\ calls[e].cached # Null
    /\ calls[e].result.id # e
    /\ calls[e].dispatched = <<>>

\* C4: a call served from the cache adds one to the hits reported by getStats
\* and leaves the misses as they were.
C4_HitIsCounted ==
  [][\A e \in ExecIds :
       (IsCalled(e) /\ calls'[e].cached # Null)
       => /\ GetStats(cache', now').hits = GetStats(cache, now).hits + 1
          /\ GetStats(cache', now').misses = GetStats(cache, now).misses]_vars

NodeIdsOf(def) == [i \in 1..Len(def.nodes) |-> def.nodes[i].id]

\* N nodes with distinct ids, chained in declaration order from startNode by
\* edges without conditions, every node of a type whose handler cannot throw
IsLinear(def) ==
  /\ def.nodes # <<>>
  /\ def.startNode = def.nodes[1].id
  /\ \A i, j \in 1..Len(def.nodes) : i # j => def.nodes[i].id # def.nodes[j].id
  /\ Len(def.edges) = Len(def.nodes) - 1
  /\ \A i \in 1..Len(def.edges) :
       /\ def.edges[i].source = def.nodes[i].id
       /\ def.edges[i].target = def.nodes[i + 1].id
       /\ def.edges[i].condition = NoCond
  /\ \A i \in 1..Len(def.nodes) : def.nodes[i].type = "transform"

\* C9: a call on a flow registered as a linear definition of N nodes resolves
\* with status completed and the N node ids, in declaration order, as its
\* executionPath.
C9_LinearPath ==
  \A e \in ExecIds :
    (e \in DOMAIN calls /\ calls[e].pc = "resolved" /\ IsLinear(calls[e].definition))
    => /\ calls[e].result.status = "completed"
       /\ calls[e].result.executionPath = NodeIdsOf(calls[e].definition)

\* what does hold of linear definitions: every call that runs the traversal
\* itself resolves with the N node ids in declaration order
LinearTraversalPath ==
  \A e \in ExecIds :
    (/\ e \in DOMAIN calls
     /\ calls[e].pc = "resolved"
     /\ calls[e].cached = Null
     /\ IsLinear(calls[e].definition))
    => /\ calls[e].result.status = "completed"
       /\ calls[e].result.executionPath = NodeIdsOf(calls[e].definition)

\* the condition `variables.<name> === <value>` is false of these variables
IsFalseOf(cond, variables) ==
  cond # NoCond /\ (cond.name \notin DOMAIN variables \/ variables[cond.name] # cond.value)

\* C10: when the outgoing edge of the node just executed carries a condition
\* that is false of the variables (the node's output merged in), the traversal
\* returns a completed result whose executionPath ends with that node, no
\* further node is dispatched, and the call goes on to resolve with that result.
C10_FalseConditionEndsFlow ==
  [][\A e \in ExecIds :
       /\ (/\ e \in DOMAIN calls
           /\ calls[e].pc = "reported"
           /\ calls'[e] # calls[e]
           /\ EdgeFor(calls[e].definition, calls[e].currentNode) # NoEdge
           /\ IsFalseOf(EdgeFor(calls[e].definition, calls[e].currentNode).condition,
                        activeFlows'[e].variables))
          => /\ calls'[e].pc = "traversed"
             /\ calls'[e].result.status = "completed"
             /\ calls'[e].result.executionPath =
                  Append(calls[e].executionPath, calls[e].currentNode)
             /\ calls'[e].result.output = activeFlows'[e].variables
             /\ calls'[e].dispatched = calls[e].dispatched
       /\ (/\ e \in DOMAIN calls
           /\ calls[e].pc \in {"traversed", "cacheSet"}
           /\ calls'[e] # calls[e])
          => /\ calls'[e].pc \in {"cacheSet", "resolved"}
             /\ calls'[e].result = calls[e].result
             /\ calls'[e].dispatched = calls[e].dispatched]_vars

\* C10 witness: a call of the conditional flow with input {} has resolved after
\* executing A alone; B, the target of the edge, was never dispatched
C10_Witness ==
  \E e \in ExecIds :
    /\ e \in DOMAIN calls
    /\ calls[e].pc = "resolved"
    /\ calls[e].cached = Null
    /\ calls[e].definition = DefCond
    /\ calls[e].result.status = "completed"
    /\ calls[e].result.executionPath = <<"A">>
    /\ calls[e].dispatched = <<"A">>

StatusOf(m, x) == IF x \in DOMAIN m THEN m[x].status ELSE "none"

\* C1: the status of an execution only moves pending -> running -> one of
\* completed, failed, cancelled, and never changes once it is one of these.
C1_StatusStateMachine ==
  [][\A x \in WfExecIds :
       StatusOf(executions', x) # StatusOf(executions, x)
       => \/ StatusOf(executions, x) = "none" /\ StatusOf(executions', x) = "pending"
          \/ StatusOf(executions, x) = "pending" /\ StatusOf(executions', x) = "running"
          \/ /\ StatusOf(executions, x) = "running"
             /\ StatusOf(executions', x) \in {"completed", "failed", "cancelled"}]_vars

\* the step of call e in which it leaves program point pc
Leaves(e, pc) == e \in DOMAIN calls /\ calls[e].pc = pc /\ calls'[e] # calls[e]

\* C11: a call that misses the cache creates its own instance even while
\* another call for the same key is running, every call that runs the traversal
\* dispatches each node of its executionPath itself, each store overwrites the
\* entry of the key, and when a call completes with no other call still awaiting
\* its own store, the entry of its key, if any, is that call's result.
C11_ConcurrentCallsNotCoalesced ==
  [][\A e \in ExecIds :
       /\ (Leaves(e, "cacheGet") /\ calls[e].cached = Null)
          => /\ e \in DOMAIN activeFlows'
             /\ activeFlows'[e].id = e
             /\ \A e2 \in DOMAIN activeFlows : activeFlows'[e2] = activeFlows[e2]
       /\ Leaves(e, "traversed")
          => /\ calls[e].dispatched = calls[e].result.executionPath
             /\ calls[e].result.id = e
             /\ cache'[calls[e].cacheKey].data = calls[e].result
       /\ (Leaves(e, "cacheSet") /\ AwaitingSet(calls') = {}
           /\ calls[e].cacheKey \in DOMAIN cache')
          => cache'[calls[e].cacheKey].data = calls[e].result]_vars

\* C11 witness: two calls for the same key ran at the same time (the clock has
\* not moved, so the second missed the cache only because the first had not
\* stored yet), both dispatched the whole path, and the entry is the result of
\* the second
C11_Witness ==
  /\ now = 0
  /\ \E e1, e2 \in DOMAIN calls :
       /\ e1 # e2
       /\ calls[e1].pc = "resolved" /\ calls[e2].pc = "resolved"
       /\ calls[e1].cached = Null /\ calls[e2].cached = Null
       /\ calls[e1].cacheKey = calls[e2].cacheKey
       /\ calls[e1].definition = DefLinear /\ calls[e2].definition = DefLinear
       /\ calls[e1].dispatched = <<"A", "B", "C">>
       /\ calls[e2].dispatched = <<"A", "B", "C">>
       /\ calls[e1].result.id = e1
       /\ cache[calls[e1].cacheKey].data.id = e2

\* the call looked its flow up and computed its cache key
HasKey(e) == e \in DOMAIN calls /\ calls[e].definition # NoDef

\* C12: two calls with the same flowId and with inputs that are equal as
\* key-value objects have the same cache key.
C12_KeyIsFunctionOfInput ==
  \A e1, e2 \in ExecIds :
    (/\ HasKey(e1) /\ HasKey(e2)
     /\ calls[e1].flowId = calls[e2].flowId
     /\ ObjOf(calls[e1].input) = ObjOf(calls[e2].input))
    => calls[e1].cacheKey = calls[e2].cacheKey

\* C13: when the dispatch of a node fails the traversal is over: the call
\* dispatches nothing further and stores nothing in the cache, its promise is
\* rejected with that error and carries no FlowResult; a call made afterwards
\* for the same key, nothing being stored for it, misses the cache and starts
\* its own traversal.
C13_FailFast ==
  [][\A e \in ExecIds :
       /\ (Leaves(e, "handler") /\ calls'[e].pc # "reported")
          => /\ calls'[e].pc = "failing"
             /\ calls'[e].error = "Node execution failed"
             /\ calls'[e].dispatched = calls[e].dispatched
             /\ calls'[e].executionPath = calls[e].executionPath
             /\ UNCHANGED <<cache, accessOrder>>
       /\ Leaves(e, "failing")
          => /\ calls'[e].pc = "rejected"
             /\ calls'[e].error = calls[e].error
             /\ calls'[e].result = Null
             /\ calls'[e].dispatched = calls[e].dispatched
             /\ UNCHANGED <<cache, accessOrder>>
       /\ (/\ HasKey(e)
           /\ calls[e].pc = "rejected"
           /\ calls[e].cacheKey \notin DOMAIN cache)
          => \A e2 \in ExecIds :
               (/\ IsCalled(e2)
                /\ flowDefinitions[calls'[e2].flowId] # NoDef
                /\ calls'[e2].cacheKey = calls[e].cacheKey)
               => calls'[e2].cached = Null /\ calls'[e2].pc = "cacheGet"]_vars

\* C13 witness: the api_call node B of the conditional flow failed after A had
\* run; the call is rejected, nothing is stored for its key, and a second call
\* for the same key is running its own traversal
C13_Witness ==
  \E e1, e2 \in DOMAIN calls :
    /\ e1 < e2
    /\ calls[e1].pc = "rejected"
    /\ calls[e1].error = "Node execution failed"
    /\ calls[e1].dispatched = <<"A", "B">>
    /\ calls[e1].result = Null
    /\ calls[e1].cacheKey \notin DOMAIN cache
    /\ calls[e2].cacheKey = calls[e1].cacheKey
    /\ calls[e2].cached = Null
    /\ calls[e2].dispatched # <<>>

IdsOf(def) == {def.nodes[i].id : i \in 1..Len(def.nodes)}

\* the node the traversal of call e turns to after the node it has just run
TargetOf(e, variables) ==
  LET edge == EdgeFor(calls[e].definition, calls[e].currentNode)
  IN IF ConditionNotMet(edge, variables) THEN "" ELSE NextNode(edge)

\* C14: registerFlow stores any definition and raises nothing; a traversal that
\* turns to a node id absent from the nodes of its definition fails with "Node
\* not found" at that moment, when every node before it on the path has been
\* dispatched and reported to the MemoryManager; the error arises in no other
\* way.
C14_NodesCheckedLazily ==
  [][/\ \A d \in LazyDefs :
          flowDefinitions[d.id] # flowDefinitions'[d.id] => calls' = calls
     /\ \A e \in ExecIds :
          /\ (/\ Leaves(e, "cacheGet")
              /\ calls[e].cached = Null
              /\ calls[e].definition.startNode \notin IdsOf(calls[e].definition))
             => /\ calls'[e].pc = "failing"
                /\ calls'[e].error = "Node not found"
                /\ calls'[e].dispatched = <<>>
          /\ (/\ Leaves(e, "reported")
              /\ TargetOf(e, activeFlows'[e].variables) # ""
              /\ TargetOf(e, activeFlows'[e].variables) \notin IdsOf(calls[e].definition))
             => /\ calls'[e].pc = "failing"
                /\ calls'[e].error = "Node not found"
                /\ calls'[e].executionPath = calls[e].dispatched
                /\ calls'[e].dispatched = calls[e].dispatched
                /\ calls'[e].reported = calls[e].dispatched
          /\ (/\ e \in DOMAIN calls'
              /\ calls'[e].error = "Node not found"
              /\ (e \notin DOMAIN calls \/ calls[e].error # "Node not found"))
             => /\ calls'[e].currentNode \notin IdsOf(calls'[e].definition)
                /\ calls'[e].reported = calls'[e].dispatched]_vars

\* C14 witness: the definition with the dangling edge B -> Z was registered
\* and a call on it was rejected with "Node not found" after A and B had been
\* dispatched and reported
C14_Witness ==
  /\ flowDefinitions["f1"] = DefDangling
  /\ \E e \in DOMAIN calls :
       /\ calls[e].pc = "rejected"
       /\ calls[e].definition = DefDangling
       /\ calls[e].error = "Node not found"
       /\ calls[e].dispatched = <<"A", "B">>
       /\ calls[e].reported = <<"A", "B">>

\* the step events of a run over the nodes ns that completed the first i of
\* them: started and completed alternate, node by node in declaration order
RECURSIVE EventsOfCompleted(_, _)
EventsOfCompleted(ns, i) ==
  IF i = 0 THEN <<>>
  ELSE EventsOfCompleted(ns, i - 1)
         \o << <<"step:started", ns[i].label>>, <<"step:completed", ns[i].label>> >>

\* C15: the step events of an execution are those of its workflow's nodes taken
\* one at a time in declaration order, whatever the edges: the first i nodes
\* started and completed in turn, then, while step i + 1 is awaited, its
\* step:started alone, or its step:failed after it when it failed; a resolved
\* execution has gone through all the nodes.
C15_StepsInDeclarationOrder ==
  \A x \in DOMAIN wfCalls :
    LET c  == wfCalls[x]
        ns == WorkflowOf(c.workflowId).nodes
    IN (c.workflowId \in WorkflowIds /\ c.pc \notin {"none", "started"}
        /\ x \in DOMAIN executions)
       => /\ c.i <= Len(ns)
          /\ c.pc = "step"
             => c.events = Append(EventsOfCompleted(ns, c.i),
                                  <<"step:started", ns[c.i + 1].label>>)
          /\ c.pc \in {"stepsFailed", "rejected"}
             => c.events = EventsOfCompleted(ns, c.i)
                             \o << <<"step:started", ns[c.i + 1].label>>,
                                   <<"step:failed", ns[c.i + 1].label>> >>
          /\ c.pc \in {"stepsDone", "resolved"}
             => c.events = EventsOfCompleted(ns, Len(ns))

\* C15 witness: an execution of w2 has resolved after running A and then B,
\* although the only edge of w2 leads from B to A
C15_Witness ==
  \E x \in DOMAIN wfCalls :
    /\ wfCalls[x].workflowId = "w2"
    /\ wfCalls[x].pc = "resolved"
    /\ wfCalls[x].events = << <<"step:started", "A">>, <<"step:completed", "A">>,
                              <<"step:started", "B">>, <<"step:completed", "B">> >>

\* C16: a step is handed to executeStep only when every step it depends on has
\* already run in this execution (its result is recorded in the metadata).
C16_DependenciesChecked ==
  \A x \in DOMAIN wfCalls :
    wfCalls[x].pc = "step"
    => LET step == wfCalls[x].steps[wfCalls[x].i + 1]
       IN \A k \in 1..Len(step.dependencies) :
            StepResultKey(step.dependencies[k]) \in DOMAIN executions[x].metadata

GroupsOf(kind) == {g \in DOMAIN groups : groups[g].kind = kind}

Completed(x) == x \in DOMAIN executions /\ executions[x].status = "completed"

\* C17: an executeWorkflowsParallel call has one executeWorkflow call per id,
\* in the order of the ids, from the moment it is made; when it resolves, every
\* one of them has resolved and it returns their contexts in that order, each
\* completed; when it rejects, one of them was rejected and it returns no
\* context.
C17_ParallelAllOrNothing ==
  \A g \in GroupsOf("parallel") :
    LET gr == groups[g]
    IN /\ Len(gr.members) = Len(gr.ids)
       /\ \A i \in 1..Len(gr.ids) :
            /\ gr.members[i] \in DOMAIN wfCalls
            /\ wfCalls[gr.members[i]].workflowId = gr.ids[i]
            /\ \A j \in 1..Len(gr.ids) : i # j => gr.members[i] # gr.members[j]
       /\ gr.pc = "resolved"
          => /\ gr.result = gr.members
             /\ \A i \in 1..Len(gr.members) :
                  wfCalls[gr.members[i]].pc = "resolved" /\ Completed(gr.members[i])
       /\ gr.pc = "rejected"
          => /\ gr.result = <<>>
             /\ \E i \in 1..Len(gr.members) : wfCalls[gr.members[i]].pc = "rejected"

\* C17 witness: a parallel call over two workflows was rejected although one of
\* its executions completed
C17_Witness ==
  \E g \in GroupsOf("parallel") :
    /\ groups[g].pc = "rejected"
    /\ Len(groups[g].members) = 2
    /\ groups[g].result = <<>>
    /\ \E i \in 1..2 :
         /\ wfCalls[groups[g].members[i]].pc = "resolved"
         /\ Completed(groups[g].members[i])

\* C18: an executeWorkflowsSequence call starts the workflows in the order of
\* the ids, each only when the execution before it has resolved with a terminal
\* status; once an execution is rejected the call rejects and starts nothing
\* more; when it resolves it returns one completed context per id, in order.
C18_SequenceOneAtATime ==
  [][\A g \in DOMAIN groups' :
       groups'[g].kind = "sequence"
       => LET gr == groups'[g]
              n  == Len(gr.members)
          IN /\ n <= Len(gr.ids)
             /\ \A i \in 1..n : wfCalls'[gr.members[i]].workflowId = gr.ids[i]
             /\ \A i \in 1..(n - 1) :
                  /\ wfCalls'[gr.members[i]].pc = "resolved"
                  /\ IsTerminal(executions'[gr.members[i]].status)
                  /\ gr.members[i] < gr.members[i + 1]
             /\ gr.pc = "resolved"
                => /\ n = Len(gr.ids)
                   /\ gr.result = gr.members
                   /\ \A i \in 1..n : executions'[gr.members[i]].status = "completed"
             /\ gr.pc = "rejected"
                => /\ wfCalls'[gr.members[n]].pc = "rejected"
                   /\ (g \in DOMAIN groups /\ groups[g].pc = "rejected")
                      => gr.members = groups[g].members]_vars

\* C18 witness: the first execution of a sequence over two workflows failed;
\* the call is rejected and the second workflow was never started
C18_Witness ==
  \E g \in GroupsOf("sequence") :
    /\ groups[g].pc = "rejected"
    /\ Len(groups[g].ids) = 2
    /\ Len(groups[g].members) = 1
    /\ groups[g].members[1] \in DOMAIN executions
    /\ executions[groups[g].members[1]].status = "failed"
    /\ Cardinality(DOMAIN wfCalls) = 1

\* what an execution recorded besides its input and workflow id: its step
\* results
RecordedOutput(metadata) ==
  [k \in DOMAIN metadata \ {"input", "workflowId"} |-> metadata[k]]

\* C19: in a sequence, the input passed to workflow k + 1 is the input passed
\* to workflow k with the output recorded by the execution of workflow k merged
\* over it.
C19_OutputThreaded ==
  \A g \in GroupsOf("sequence") :
    \A i \in 1..(Len(groups[g].members) - 1) :
      LET m1 == groups[g].members[i]
          m2 == groups[g].members[i + 1]
      IN wfCalls[m2].input =
           Spread(wfCalls[m1].input, RecordedOutput(executions[m1].metadata))

\* C20: an executeWorkflowsConditional call runs at most one workflow.
C20_OnlyFirstMatchRuns ==
  \A g \in GroupsOf("conditional") : Len(groups[g].members) <= 1

\* the executions a loop call has pushed so far, the last one awaited included
\* once it has resolved
TrueEvaluations(gr) == Len(gr.members)

\* C21: executeWorkflowsLoop starts an execution exactly when its predicate
\* holds of the context of the previous iteration (the synthetic pending context
\* before the first), one execution per true evaluation; it returns exactly when
\* the predicate is false of that context, with one completed context per true
\* evaluation; while the predicate holds and the executions resolve the call
\* neither returns nor rejects.
C21_LoopRunsWhilePredicateHolds ==
  [][\A g \in DOMAIN groups' :
       LET old  == IF g \in DOMAIN groups THEN groups[g] ELSE NoGroup
           new  == groups'[g]
           prev == IF old.members = <<>> THEN SyntheticContext
                   ELSE executions[old.members[Len(old.members)]]
       IN (new.kind = "loop" /\ new # old) =>
            /\ old.members # <<>> =>
                  wfCalls[old.members[Len(old.members)]].pc \in {"resolved", "rejected"}
            /\ (old.members # <<>> /\ wfCalls[old.members[Len(old.members)]].pc = "rejected")
                  => new.pc = "rejected" /\ new.members = old.members
            /\ (old.members = <<>> \/ wfCalls[old.members[Len(old.members)]].pc = "resolved")
                  => IF Holds(new.pred, prev)
                     THEN /\ new.pc = "waiting"
                          /\ Len(new.members) = Len(old.members) + 1
                          /\ new.result = old.members
                          /\ wfCalls'[new.members[Len(new.members)]].workflowId = new.ids[1]
                          /\ wfCalls'[new.members[Len(new.members)]].input = new.input
                     ELSE /\ new.pc = "resolved"
                          /\ new.members = old.members
                          /\ new.result = old.members
                          /\ Len(new.result) = TrueEvaluations(old)
                          /\ \A i \in 1..Len(new.result) :
                                executions'[new.result[i]].status = "completed"]_vars

\* a loop call whose predicate holds of a pending context only has run one
\* execution and returned its context
C21_Witness ==
  \E g \in DOMAIN groups :
    /\ groups[g].kind = "loop"
    /\ groups[g].pred = "pending"
    /\ groups[g].pc = "resolved"
    /\ Len(groups[g].result) = 1

\* what cancelExecution(x) does to the executions execs at instant t
CancelContract(execs, t) ==
  \A x \in WfExecIds :
    LET r == CancelResult(execs, x, t)
    IN /\ x \notin DOMAIN execs => r.threw /\ r.executions = execs
       /\ (x \in DOMAIN execs /\ execs[x].status = "running") =>
            /\ ~r.threw
            /\ r.executions[x] = [execs[x] EXCEPT !.status = "cancelled", !.endTime = t]
            /\ \A y \in DOMAIN execs \ {x} : r.executions[y] = execs[y]
       /\ (x \in DOMAIN execs /\ execs[x].status # "running") =>
            ~r.threw /\ r.executions = execs

\* C22: cancelExecution(id) changes an execution only if it is running, setting
\* its status to cancelled and its endTime to the instant of the call; for any
\* other status it changes nothing; for an unknown id it throws and changes
\* nothing. A step that makes an execution cancelled is such a call: it changes
\* nothing else, no other execution, no metric and no call.
C22_CancelOnlyRunning ==
  [][/\ CancelContract(executions', now')
     /\ \A x \in DOMAIN executions' :
          (executions'[x].status = "cancelled" /\ StatusOf(executions, x) # "cancelled")
            => /\ StatusOf(executions, x) = "running"
               /\ executions' = [executions EXCEPT ![x].status = "cancelled",
                                                    ![x].endTime = now]
               /\ wfMetrics' = wfMetrics
               /\ wfCalls' = wfCalls]_vars

\* one execution has been cancelled and stamped while another has completed
C22_Witness ==
  \E x, y \in DOMAIN executions :
    /\ executions[x].status = "cancelled"
    /\ executions[x].endTime = now
    /\ executions[y].status = "completed"

\* the executeWorkflow calls that have settled with the given outcome, those on
\* an unregistered workflow (which have no context) left out
SettledAs(pc) == {x \in DOMAIN wfCalls : wfCalls[x].pc = pc /\ x \in DOMAIN executions}

RECURSIVE SumDurations(_)
SumDurations(xs) ==
  IF xs = {} THEN 0
  ELSE LET x == CHOOSE y \in xs : TRUE
       IN (executions[x].endTime - executions[x].startTime) + SumDurations(xs \ {x})

\* C24: after n successful executions with durations t1..tn the
\* averageExecutionTime of getMetrics is (t1 + ... + tn) / n.
C24_AverageIsRunningMean ==
  LET n == wfMetrics.successfulExecutions
      a == GetMetrics(wfMetrics).averageExecutionTime
  IN n > 0 => a.num * n = SumDurations(SettledAs("resolved")) * a.den

\* the form in which a failure thrown by a handler reaches the caller: an Error
\* whose message reads `Node execution failed: <node id> - <message>`
IsStepExecutionError(c) == c.error = "Node execution failed" /\ c.errorNode # ""

\* C25: a call that fails at a node whose type has no handler has invoked no
\* handler for that node, and its error is not of the form of the
\* step-execution error, annotated with the node id, in which a failure thrown
\* by a handler is re-raised.
C25_StructuralFailureTellsApart ==
  \A e \in DOMAIN calls :
    (calls[e].pc = "rejected" /\ calls[e].errorNode # "") =>
      LET c    == calls[e]
          node == NodeFor(c.definition, c.errorNode)
      IN IF node.type \in HandlerTypes
         THEN /\ IsStepExecutionError(c)
              /\ c.dispatched[Len(c.dispatched)] = c.errorNode
         ELSE /\ \A i \in 1..Len(c.dispatched) : c.dispatched[i] # c.errorNode
              /\ ~ IsStepExecutionError(c)

\* the messages of the rules that fail of the variables, first rule first
RECURSIVE FailedMessages(_, _)
FailedMessages(rules, variables) ==
  IF rules = <<>> THEN <<>>
  ELSE IF ValidateRule(Head(rules), variables)
  THEN FailedMessages(Tail(rules), variables)
  ELSE <<Head(rules).message>> \o FailedMessages(Tail(rules), variables)

AtValidation(e, pc) ==
  /\ Leaves(e, pc)
  /\ NodeFor(calls[e].definition, calls[e].currentNode).type = "validation"

\* C26: a validation node does not throw when rules fail: its step output is
\* {isValid, errors} with the messages of the failed rules in rule order and
\* isValid false when there is one; the output is merged into the variables; and
\* the traversal goes on to the target of the node's edge, whether the
\* validation passed or not, unless the edge carries a condition that is false.
C26_FailedValidationIsOutput ==
  [][\A e \in DOMAIN calls :
       LET c    == calls[e]
           c1   == calls'[e]
           node == NodeFor(c.definition, c.currentNode)
           errs == FailedMessages(node.config.rules, activeFlows[e].variables)
           edge == EdgeFor(c.definition, c.currentNode)
       IN /\ AtValidation(e, "handler") =>
               /\ c1.pc = "reported"
               /\ c1.nodeResult.output = ValidationOutput(errs)
               /\ c1.nodeResult.output["isValid"] = (errs = <<>>)
          /\ AtValidation(e, "reported") =>
               /\ activeFlows'[e].variables =
                    Spread(activeFlows[e].variables, c.nodeResult.output)
               /\ activeFlows'[e].variables["errors"] = c.nodeResult.output["errors"]
               /\ c1.executionPath = Append(c.executionPath, c.currentNode)
               /\ IF edge.condition # NoCond
                     /\ ~ EvaluateCondition(edge.condition, activeFlows'[e].variables)
                  THEN c1.pc = "traversed"
                  ELSE /\ c1.pc = "handler"
                       /\ c1.currentNode = edge.target
                       /\ c1.dispatched = Append(c.dispatched, edge.target)]_vars

\* a call whose validation failed both rules has gone on to node B and resolved
C26_Witness ==
  \E e \in DOMAIN calls :
    /\ calls[e].pc = "resolved"
    /\ calls[e].cached = Null
    /\ calls[e].result.executionPath = <<"A", "B">>
    /\ calls[e].result.output["isValid"] = FALSE
    /\ calls[e].result.output["errors"] = <<"m1", "m2">>

\* the executionPath and output of a traversal of def from nodeId on that no
\* handler fails
RECURSIVE TraversalOf(_, _, _, _)
TraversalOf(def, nodeId, variables, path) ==
  IF nodeId = "" \/ NodeFor(def, nodeId) = NoNode
  THEN [executionPath |-> path, output |-> variables]
  ELSE LET node  == NodeFor(def, nodeId)
           out   == CHOOSE o \in HandlerReturns(node, variables) : TRUE
           vars1 == Spread(variables, out)
           edge  == EdgeFor(def, nodeId)
       IN IF ConditionNotMet(edge, vars1)
          THEN [executionPath |-> Append(path, nodeId), output |-> vars1]
          ELSE TraversalOf(def, NextNode(edge), vars1, Append(path, nodeId))

\* C27: every executeFlow call resolves with a result produced by traversing
\* the definition registered under its flow id when the call was issued, also
\* when that definition replaced another one for which calls were executed
\* before.
C27_ReregistrationTakesEffect ==
  \A e \in DOMAIN calls :
    calls[e].pc = "resolved" =>
      LET t == TraversalOf(calls[e].definition, calls[e].definition.startNode,
                           ObjOf(calls[e].input), <<>>)
      IN /\ calls[e].result.executionPath = t.executionPath
         /\ calls[e].result.output = t.output

\* what does hold: a call that runs the traversal itself resolves with the
\* result of traversing the definition registered when it was issued
TraversedCallsUseNewDefinition ==
  \A e \in DOMAIN calls :
    (calls[e].pc = "resolved" /\ calls[e].cached = Null) =>
      LET t == TraversalOf(calls[e].definition, calls[e].definition.startNode,
                           ObjOf(calls[e].input), <<>>)
      IN /\ calls[e].result.executionPath = t.executionPath
         /\ calls[e].result.output = t.output

\* C28: a fault raised by the cache (get or set) or by the memory manager
\* (updateUsage) during executeFlow never fails the flow: no call of executeFlow
\* is rejected with the fault, nor on its way to the rethrowing catch block
C28_ComponentFaultsNeverFailTheFlow ==
  \A e \in DOMAIN calls :
    calls[e].pc \in {"failing", "rejected"} => calls[e].error \notin ComponentFaults

\* the calls of executeWorkflow whose awaited step was overtaken by its timer
TimedOut == {x \in DOMAIN wfCalls : wfCalls[x].error = TimeoutError}

\* C29: a step is overtaken by its timer only once the step-level timeout has
\* elapsed since the step was started; the step is then recorded as failed with
\* the timeout error, the execution is failing or failed, no later step is
\* started, the handler of the step is still running or has settled on its own
\* without being aborted, and its result is recorded nowhere
C29_TimeoutFailsStepNotHandler ==
  \A x \in TimedOut :
    LET c    == wfCalls[x]
        ctx  == executions[x]
        k    == c.i + 1
        step == c.steps[k]
    IN /\ now - c.armedAt >= step.timeout
       /\ [step |-> step.name, message |-> TimeoutError] = ctx.errors[1]
       /\ c.events[Len(c.events)] = <<"step:failed", step.name>>
       /\ c.pc \in {"stepsFailed", "rejected"}
       /\ c.pc = "rejected" => ctx.status = "failed"
       /\ c.leaked \cup c.late = {k}
       /\ StepResultKey(step.id) \notin DOMAIN ctx.metadata
       /\ \A n \in 1..Len(c.events) : c.events[n] # <<"step:completed", step.name>>

\* the first of two steps has timed out, the execution has failed, and the
\* handler left running has settled afterwards
C29_Witness ==
  \E x \in TimedOut :
    /\ wfCalls[x].pc = "rejected"
    /\ wfCalls[x].i = 0
    /\ Len(wfCalls[x].steps) = 2
    /\ wfCalls[x].late = {1}
    /\ executions[x].status = "failed"

\* how many times the event is in the log
RECURSIVE Occurrences(_, _)
Occurrences(log, ev) ==
  IF log = <<>> THEN 0
  ELSE (IF Head(log) = ev THEN 1 ELSE 0) + Occurrences(Tail(log), ev)

\* C30: executeWorkflow attempts each step exactly once: no step is started
\* twice although every step carries retryAttempts, an execution that resolves
\* has started every step once, and the first step:failed is the last event of
\* the execution, which is failing or failed
C30_EachStepAttemptedOnce ==
  \A x \in DOMAIN wfCalls :
    LET c == wfCalls[x]
    IN \A k \in 1..Len(c.steps) :
         LET started == Occurrences(c.events, <<"step:started", c.steps[k].name>>)
             failed  == Occurrences(c.events, <<"step:failed", c.steps[k].name>>)
         IN /\ c.steps[k].retryAttempts > 0
            /\ started <= 1
            /\ c.pc = "resolved" => started = 1 /\ failed = 0
            /\ failed > 0 =>
                 /\ c.events[Len(c.events)] = <<"step:failed", c.steps[k].name>>
                 /\ c.pc \in {"stepsFailed", "rejected"}
                 /\ c.pc = "rejected" => executions[x].status = "failed"

\* the first of two steps has failed after one attempt and the execution has
\* been rejected as failed
C30_Witness ==
  \E x \in DOMAIN wfCalls :
    /\ wfCalls[x].pc = "rejected"
    /\ Len(wfCalls[x].steps) = 2
    /\ wfCalls[x].events = <<<<"step:started", wfCalls[x].steps[1].name>>,
                             <<"step:failed", wfCalls[x].steps[1].name>>>>
    /\ executions[x].status = "failed"

\* the key occurs in the recency list
Listed(order, key) == \E n \in 1..Len(order) : order[n] = key

\* C31: a stored entry is returned by get only while now - timestamp <= TTL;
\* a get leaves the timestamp of every entry it keeps (only a set stamps the
\* key with the present instant), and a get of an expired entry removes the
\* key from the cache and from the recency list and returns null
C31_AbsoluteExpiry ==
  [][/\ now' = now /\ cacheLog'.op = "get" /\ cacheLog'.key \in DOMAIN cache =>
          LET k == cacheLog'.key
          IN IF now - cache[k].timestamp <= TTL
             THEN /\ cacheLog'.ret = cache[k].data
                  /\ k \in DOMAIN cache'
                  /\ \A j \in DOMAIN cache' : cache'[j].timestamp = cache[j].timestamp
             ELSE /\ cacheLog'.ret = Null
                  /\ k \notin DOMAIN cache'
                  /\ ~ Listed(accessOrder', k)
                  /\ \A j \in DOMAIN cache' : cache'[j] = cache[j]
     /\ now' = now /\ cacheLog'.op = "set" => cache'[cacheLog'.key].timestamp = now
    ]_vars

\* a get has just found the entry of its key expired, removed it and returned
\* null, while another entry is still stored
C31_Witness ==
  /\ cacheLog.op = "get"
  /\ cacheLog.ret = Null
  /\ cacheLog.removed = {cacheLog.key}
  /\ cacheLog.key \notin DOMAIN cache
  /\ ~ Listed(accessOrder, cacheLog.key)
  /\ cache # EmptyMap

\* what getAvailableMemory() returns to a listener called while the total is cur
AvailableAt(cur) == MaxMemory - cur

\* C32: updateUsage never refuses a usage: the total its listeners see is the
\* total before the call minus the usage recorded for the node plus the new
\* usage, whatever the capacity; when that total exceeds the capacity the
\* listeners of memory:warning and memory:critical are called with it, before
\* the eviction pass, and getAvailableMemory() is negative for them
C32_AdvisoryTracker ==
  memCalls # <<>> =>
    LET c == LastMemCall
    IN /\ c.peak = c.before - c.prev + c.usage
       /\ c.peak > MaxMemory =>
            /\ c.events = <<"memory:warning", "memory:critical", "memory:cleaned">>
            /\ AvailableAt(c.peak) < 0
       /\ c.peak <= MaxMemory => currentUsage = c.peak /\ AvailableAt(c.peak) >= 0

\* a call has taken the total above the capacity with other contributors
\* recorded: its listeners saw a negative available memory
C32_Witness ==
  /\ memCalls # <<>>
  /\ LastMemCall.before > 0
  /\ LastMemCall.before <= MaxMemory
  /\ LastMemCall.peak > MaxMemory
  /\ AvailableAt(LastMemCall.peak) < 0

\* the call created an instance: the flow was found and the cache had nothing
Traversing(c) ==
  c.definition # NoDef /\ c.pc \notin {"none", "cacheGet"} /\ ~ IsCached(c.cached)

Writers(def, path, n) ==
  {i \in 1..Len(path) :
     \E o \in HandlerReturns(NodeFor(def, path[i]), <<>>) : n \in DOMAIN o}

\* the greatest member of a non-empty set of numbers
Greatest(S) == CHOOSE x \in S : \A y \in S : y <= x

\* the names the nodes of the path can produce
Produced(def, path) ==
  UNION {DOMAIN o : o \in UNION {HandlerReturns(NodeFor(def, path[i]), <<>>) :
                                   i \in 1..Len(path)}}

\* C34: at every moment of a traversal the variables of the instance hold the
\* names of the input and the names produced by the nodes executed so far, none
\* missing: they are a copy of the input before the first node, and each name
\* maps to the value written by the last executed node that produces it, or to
\* the input's value if none does; the output of the finished traversal is
\* these variables
C34_VariablesOnlyGrow ==
  \A e \in DOMAIN activeFlows :
    LET c    == calls[e]
        vars1 == activeFlows[e].variables
        inp  == ObjOf(c.input)
    IN c.pc \in {"handler", "reported", "traversed"} =>
         /\ DOMAIN vars1 = DOMAIN inp \cup Produced(c.definition, c.executionPath)
         /\ c.executionPath = <<>> => vars1 = inp
         /\ \A n \in DOMAIN vars1 :
              LET w == Writers(c.definition, c.executionPath, n)
              IN IF w = {}
                 THEN vars1[n] = inp[n]
                 ELSE \E o \in HandlerReturns(
                         NodeFor(c.definition, c.executionPath[Greatest(w)]), <<>>) :
                        n \in DOMAIN o /\ vars1[n] = o[n]
         /\ c.pc = "traversed" => c.result.output = vars1

\* a traversal of three nodes has finished on input {a: 1}: the second node
\* has overwritten what the first wrote and the input's member is still there
C34_Witness ==
  \E e \in DOMAIN calls :
    /\ calls[e].pc = "traversed"
    /\ Len(calls[e].executionPath) = 3
    /\ calls[e].result.output = [a |-> 1, b |-> 2, c |-> 3]

\* p is a nearest integer to 100 * i / total
NearestPercent(p, i, total) ==
  LET d == p * total - 100 * i
  IN 2 * (IF d < 0 THEN -d ELSE d) <= total

EdgesFrom(def, x) == {j \in 1..Len(def.edges) : def.edges[j].source = x}

\* the edge declared last among those with the source
LastEdgeFrom(def, x) == def.edges[Greatest(EdgesFrom(def, x))]

\* the condition, on a name no node of the path produces, holds of the input
HoldsOfInput(cond, c) ==
  cond.kind = "eq" /\ cond.name \notin Produced(c.definition, c.dispatched)
    => cond.name \in DOMAIN ObjOf(c.input) /\ ObjOf(c.input)[cond.name] = cond.value

\* C36: a node is left through the edge declared last among the edges with that
\* source, and through no other: the node dispatched next is the target of that
\* edge and its condition, if any, holds; a traversal that ends at a node with
\* outgoing edges ends there because the condition of the last-declared one
\* does not hold, whatever the edges declared before it say
C36_LastDeclaredEdgeOnly ==
  \A e \in DOMAIN calls :
    LET c == calls[e]
    IN Traversing(c) /\ c.pc # "rejected" =>
         /\ \A i \in 1..(Len(c.dispatched) - 1) :
              /\ EdgesFrom(c.definition, c.dispatched[i]) # {}
              /\ LET ed == LastEdgeFrom(c.definition, c.dispatched[i])
                 IN /\ c.dispatched[i + 1] = ed.target
                    /\ ed.condition # NoCond => HoldsOfInput(ed.condition, c)
         /\ (c.pc = "traversed" /\ c.executionPath # <<>>) =>
              LET x == c.executionPath[Len(c.executionPath)]
              IN EdgesFrom(c.definition, x) # {} =>
                   LET ed == LastEdgeFrom(c.definition, x)
                   IN /\ ed.condition # NoCond
                      /\ ed.condition.kind = "eq" =>
                           ~ (/\ ed.condition.name \in DOMAIN c.result.output
                              /\ c.result.output[ed.condition.name] = ed.condition.value)

\* two traversals of the definition with two edges from A: one went from A to
\* C by the edge declared last, the other ended at A although the edge declared
\* first leads to B without a condition
C36_Witness ==
  \E e1, e2 \in DOMAIN calls :
    /\ calls[e1].definition = DefFork /\ calls[e2].definition = DefFork
    /\ calls[e1].pc = "traversed" /\ calls[e1].executionPath = <<"A", "C">>
    /\ calls[e2].pc \in {"traversed", "cacheSet"}
    /\ calls[e2].result.executionPath = <<"A">>

\* the edge declared last for the node has a condition whose evaluation throws
LeavesByThrowingCondition(def, x) ==
  EdgesFrom(def, x) # {} /\ LastEdgeFrom(def, x).condition.kind = "free"

Successor(def, x) ==
  IF EdgesFrom(def, x) = {} THEN "" ELSE LastEdgeFrom(def, x).target

\* no node is met twice on the way from x along the successors
RECURSIVE NoCycleFrom(_, _, _)
NoCycleFrom(def, x, seen) ==
  IF x = "" \/ NodeFor(def, x) = NoNode THEN TRUE
  ELSE IF x \in seen THEN FALSE
  ELSE NoCycleFrom(def, Successor(def, x), seen \cup {x})

Acyclic(def) == NoCycleFrom(def, def.startNode, {})

NoRepeat(path) == \A i, j \in 1..Len(path) : i # j => path[i] # path[j]

\* a call of executeFlow on a definition without a reachable cycle
AcyclicCall(e) == e \in DOMAIN calls /\ Acyclic(calls[e].definition)

\* the promise of the call has resolved or rejected
SettledCall(e) == e \in DOMAIN calls /\ calls[e].pc \in {"resolved", "rejected"}

\* C37: on a definition whose successors form no cycle reachable from
\* startNode a traversal names no node twice in its path, dispatches at most as
\* many nodes as the definition has, and, the handlers terminating, the call of
\* executeFlow settles
C37_AcyclicTerminates ==
  /\ [](\A e \in DOMAIN calls :
          Acyclic(calls[e].definition) =>
            /\ NoRepeat(calls[e].dispatched)
            /\ NoRepeat(calls[e].executionPath)
            /\ Len(calls[e].dispatched) <= Len(calls[e].definition.nodes))
  /\ \A e \in ExecIds :
       AcyclicCall(e) ~> SettledCall(e)

\* a traversal of the three nodes in a row has resolved with each node once in
\* its path, while a traversal of the definition with a cycle has recorded the
\* same node twice: nothing in the loop remembers the nodes visited
C37_Witness ==
  \E e1, e2 \in DOMAIN calls :
    /\ calls[e1].definition = DefLinear
    /\ calls[e1].pc = "resolved"
    /\ ~ IsCached(calls[e1].cached)
    /\ calls[e1].result.executionPath = <<"A", "B", "C">>
    /\ calls[e2].definition = DefCycle
    /\ ~ NoRepeat(calls[e2].executionPath)

\* C38: a set on a key that is already stored removes no other key, also when
\* the cache is at capacity: the stored keys are the same before and after
C38_SetOnStoredKeyKeepsKeys ==
  [][\A k \in CacheKeys, d \in SampleData :
       (k \in DOMAIN cache /\ CacheSet(k, d)) => DOMAIN cache' = DOMAIN cache]_vars

====
